---- MODULE Spec2Model ----
(***************************************************************************)
(* NovaOMS queue engine: the Supabase store (tables tickets and counters,  *)
(* the reset_daily_queue function, the realtime change feed) and the React *)
(* clients of App (their cached tickets and counters, their localStorage,  *)
(* and the asynchronous handlers handleJoinQueue, handleCancelTicket,      *)
(* handleCallNext, handleUpdateTicketStatus, checkAndPerformReset).        *)
(*                                                                         *)
(* Every await of a handler is one step: the store applies the request and *)
(* the handler runs on to its next await, reading the values its closure   *)
(* captured when it was invoked.                                           *)
(***************************************************************************)
EXTENDS Integers, Sequences, FiniteSets, TLC

\* ------------------------------------------------------------- bounds
NumStaff == 2       \* staff devices (client i operates counter i)
NumCounters == 2    \* counters provisioned (the seed data provisions 4)
MaxTickets == 2     \* tickets inserted into the store in one run
MaxTime == 2        \* values of the wall clock
MaxDay == 2         \* calendar days
MaxOps == 4         \* handler invocations in one run of Spec
MaxOpsJoin == 3     \* handler invocations in one run of SpecJoin
MaxOpsReset == 2    \* handler invocations in one run of SpecReset
MaxOpsToggle == 3   \* handler invocations in one run of SpecToggle
MaxOpsNotify == 3   \* handler invocations in one run of SpecNotify
MaxOpsIntegrity == 3 \* handler invocations in one run of SpecIntegrity
MaxDbErrors == 1    \* store requests that fail (network / RPC error)
MaxInFlight == 2    \* reset ticks of one client awaiting the RPC
MaxResets == 2      \* reset ticks and cron runs in one run of SpecReset

\* ------------------------------------------------------------- constants
NULL == 0

WAITING == "WAITING"
SERVING == "SERVING"
COMPLETED == "COMPLETED"
CANCELLED == "CANCELLED"
NO_SHOW == "NO_SHOW"
TicketStatus == {WAITING, SERVING, COMPLETED, CANCELLED, NO_SHOW}

INITIAL_SERVICES ==
  << [id |-> "srv_1", name |-> "General Inquiry", prefix |-> "A"],
     [id |-> "srv_2", name |-> "Bill Payment", prefix |-> "B"],
     [id |-> "srv_3", name |-> "Technical Support", prefix |-> "C"],
     [id |-> "srv_4", name |-> "VIP Services", prefix |-> "V"] >>

\* the services a customer picks in a run
JoinServices == {"srv_1", "srv_2"}

Kiosk == 0
Staff == 1..NumStaff
Clients == {Kiosk} \cup Staff
Counters == 1..NumCounters
Days == 1..MaxDay

\* ------------------------------------------------------------- helpers
SeqMap(Op(_), s) == [i \in 1..Len(s) |-> Op(s[i])]

\* Array.prototype.find: Some says whether an element satisfies Test (find
\* returns undefined when none does), Find is the first one that does
Some(s, Test(_)) == \E i \in 1..Len(s) : Test(s[i])
Find(s, Test(_)) ==
  s[CHOOSE i \in 1..Len(s) : Test(s[i]) /\ \A j \in 1..(i-1) : ~Test(s[j])]

\* the elements of a finite set of integers in increasing order
RECURSIVE SortedSeq(_)
SortedSeq(S) ==
  IF S = {} THEN << >>
  ELSE LET m == CHOOSE x \in S : \A y \in S : x <= y
       IN << m >> \o SortedSeq(S \ {m})

DigitChars == << "0", "1", "2", "3", "4", "5", "6", "7", "8", "9" >>

\* Number.prototype.toString (base 10, n >= 0)
RECURSIVE toString(_)
toString(n) ==
  IF n < 10 THEN DigitChars[n + 1]
  ELSE toString(n \div 10) \o DigitChars[(n % 10) + 1]

\* String.prototype.padStart with a one-character filler
RECURSIVE padStart(_, _, _)
padStart(s, targetLength, ch) ==
  IF Len(s) >= targetLength THEN s ELSE padStart(ch \o s, targetLength, ch)

\* variant: the sequence number is not padded
TicketNumber_NoPad(prefix, seq) == prefix \o toString(seq)

\* `${service.prefix}${seq.toString().padStart(3, '0')}`
TicketNumber(prefix, seq) == prefix \o padStart(toString(seq), 3, "0")

\* ------------------------------------------------------------- state
VARIABLES
  db_tickets,      \* table tickets: id -> row
  db_counters,     \* table counters: id -> row
  nextId,          \* the next uuid the store hands out
  inbox,           \* realtime change feed: per client, the events in flight
  tickets,         \* per client: React state tickets (array of Ticket)
  counters,        \* per client: React state counters (array of CounterState)
  staffCounterId,  \* per client: React state staffCounterId
  currentUser,     \* per client: React state currentUser (a staff id or NULL)
  savedCounter,    \* per client: localStorage[nova_staff_counter_<user id>]
  released,        \* per client: counters whose release by handleLogout is in flight
  handler,         \* per client: the handler invocation in flight
  outcome,         \* per client: how its last handler invocation ended
  now,             \* wall clock (ms timestamps)
  today,           \* calendar date
  lastResetDate,   \* per client: localStorage[RESET_KEY]
  resetCalls,      \* per client: dates of the reset ticks awaiting the RPC
  cronLast,        \* the day the pg_cron job last ran
  mounted,         \* the clients that are running
  subscribed,      \* the clients whose realtime channels are connected
  wipes,           \* history: per day, the executions of reset_daily_queue
  rpcErrors,       \* history: per client, the reset RPCs that failed
  db_services,     \* table services: id -> row
  services,        \* per client: React state services
  systemSettings,  \* table system_settings and its copy in every client
  isShopOpen,      \* per client: KioskView state isShopOpen
  isSendingNotification, \* per client: CounterView state isSendingNotification
  notices,         \* per client: what sendWhatsAppNotification has produced
  serviceEstimates, \* per client: DisplayView state serviceEstimates
  claimed,         \* history: <<ticket, counter>> written by handleCallNext
  toggled,         \* history: per counter, is_open before and after each toggle
  opsLeft,         \* handler invocations left
  resetsLeft,      \* reset ticks and cron runs left (-1: unlimited)
  dbErrorsLeft     \* failing store requests left

storeVars == << db_tickets, db_counters, nextId >>
cacheVars == << tickets, counters >>
resetVars == << today, lastResetDate, resetCalls, cronLast, wipes, rpcErrors,
               resetsLeft >>
clientSet == << mounted, subscribed >>
sessionVars == << staffCounterId, currentUser, savedCounter, released >>
historyVars == << claimed, toggled >>
configVars == << db_services, services, systemSettings >>
viewVars == << isShopOpen, isSendingNotification, notices, serviceEstimates >>
vars == << db_tickets, db_counters, nextId, inbox, tickets, counters,
           staffCounterId, currentUser, savedCounter, released, handler,
           outcome, now, today, lastResetDate,
           resetCalls, cronLast, mounted, subscribed, wipes, rpcErrors,
           db_services, services, systemSettings, isShopOpen,
           isSendingNotification, notices, serviceEstimates,
           claimed, toggled, opsLeft, resetsLeft, dbErrorsLeft >>

\* ------------------------------------------------------------- rows
\* DB <-> App mapping
mapDbTicketToApp(t) ==
  [ id |-> t.id, number |-> t.number, name |-> t.customer_name,
    phone |-> t.phone, serviceId |-> t.service_id,
    serviceName |-> t.service_name, status |-> t.status,
    joinedAt |-> t.joined_at, servedAt |-> t.served_at,
    completedAt |-> t.completed_at, counter |-> t.counter_id ]

mapDbServiceToApp(s) == [ id |-> s.id, name |-> s.name, prefix |-> s.prefix ]

mapDbCounterToApp(c) ==
  [ id |-> c.id, isOpen |-> c.is_open, assignedStaffId |-> c.assigned_staff_id,
    currentTicketId |-> c.current_ticket_id ]

\* seed row of table counters; staff i has selected counter i
SeedCounter(k, staff) ==
  [ id |-> k, is_open |-> TRUE, current_ticket_id |-> NULL,
    assigned_staff_id |-> IF k \in staff THEN k ELSE NULL ]

\* temp_${Date.now()}: ids of local fallback tickets never collide with uuids
TempId(t) == 0 - t

Idle == [ pc |-> "idle" ]

\* one change event to every subscribed client
Publish(events) ==
  inbox' = [c \in Clients |-> IF c \in subscribed THEN inbox[c] \o events ELSE inbox[c]]

TicketEvent(type, row) == [ table |-> "tickets", eventType |-> type, row |-> row ]
CounterEvent(row) == [ table |-> "counters", eventType |-> "UPDATE", row |-> row ]
ServiceEvent(type, row) == [ table |-> "services", eventType |-> type, row |-> row ]

\* default_wait_time (minutes) of the seed rows of table services
SeedWaitTimes == [srv_1 |-> 5, srv_2 |-> 3, srv_3 |-> 15, srv_4 |-> 10]

\* seed rows of table services (ids and names of INITIAL_SERVICES)
SeedServices ==
  [id \in {INITIAL_SERVICES[i].id : i \in DOMAIN INITIAL_SERVICES} |->
     [default_wait_time |-> SeedWaitTimes[id]]
       @@ Find(INITIAL_SERVICES, LAMBDA s : s.id = id)]

\* operatingHours of the seed row of system_settings, start and end as
\* clock values: the runs of the queue fall inside the window
SeedHours == [ enabled |-> TRUE, start |-> 1, end |-> MaxTime + 1 ]

\* the seed row of system_settings; no API key is configured
SeedSettings ==
  [ whatsappEnabled |-> TRUE, whatsappApiKey |-> "",
    whatsappTemplate |-> << "Hello ", "{name}", "{service}", "{number}", "{counter}" >>,
    operatingHours |-> SeedHours ]

\* ------------------------------------------------------------- Init
\* everything but the tickets, the counters and the clock
InitRest(devices, staff, feed, ops, resets, errors, settings) ==
  /\ db_services = SeedServices
  /\ services = [c \in Clients |-> SeqMap(mapDbServiceToApp, INITIAL_SERVICES)]
  /\ systemSettings = settings
  /\ isShopOpen = [c \in Clients |-> TRUE]
  /\ isSendingNotification = [c \in Clients |-> FALSE]
  /\ notices = [c \in Clients |-> << >>]
  /\ serviceEstimates = [c \in Clients |-> << >>]
  /\ mounted = {Kiosk} \cup devices
  /\ subscribed = feed
  /\ inbox = [c \in Clients |-> << >>]
  /\ staffCounterId = [c \in Clients |-> IF c \in staff THEN c ELSE NULL]
  /\ currentUser = [c \in Clients |-> IF c \in staff THEN c ELSE NULL]
  /\ savedCounter = [c \in Clients |->
                       [u \in Staff |-> IF c \in staff /\ u = c THEN c ELSE NULL]]
  /\ released = [c \in Clients |-> {}]
  /\ handler = [c \in Clients |-> Idle]
  /\ outcome = [c \in Clients |-> "none"]
  /\ today = 1
  /\ lastResetDate = [c \in Clients |-> today]
  /\ resetCalls = [c \in Clients |-> << >>]
  /\ cronLast = today
  /\ wipes = [d \in Days |-> 0]
  /\ rpcErrors = [c \in Clients |-> 0]
  /\ claimed = {}
  /\ toggled = [k \in Counters |-> << >>]
  /\ opsLeft = ops
  /\ resetsLeft = resets
  /\ dbErrorsLeft = errors

\* no ticket yet, the seed counters, the day begins
InitState(devices, staff, feed, ops, resets, errors, settings) ==
  /\ InitRest(devices, staff, feed, ops, resets, errors, settings)
  /\ db_tickets = << >>
  /\ db_counters = [k \in Counters |-> SeedCounter(k, staff)]
  /\ nextId = 1
  /\ tickets = [c \in Clients |-> << >>]
  /\ counters = [c \in Clients |->
                   [k \in Counters |-> mapDbCounterToApp(SeedCounter(k, staff))]]
  /\ now = 1

\* the store holds the seed settings
InitDevices(devices, staff, feed, ops, resets, errors) ==
  InitState(devices, staff, feed, ops, resets, errors, SeedSettings)

\* the running devices are the kiosk and the devices of the seated staff
InitWith(staff, feed, ops, resets, errors) ==
  InitDevices(staff, staff, feed, ops, resets, errors)

\* the kiosk and every staff device are running
Init == InitWith(Staff, Clients, MaxOps, 0, MaxDbErrors)
\* the kiosk alone
InitJoin == InitWith({}, {Kiosk}, MaxOpsJoin, 0, MaxDbErrors)
\* the kiosk and the device of counter 1; the realtime channels of the staff
\* device are connected, those of the kiosk are not, and no store request fails
InitReset == InitWith({1}, {1}, MaxOpsReset, MaxResets, 0)
\* the same two devices with their realtime channels not connected (the reset
\* reads no cached state) and no bound on the number of ticks
InitResetOnly == InitWith({1}, {}, 0, 0 - 1, MaxDbErrors)

\* ------------------------------------------------------------- store requests
\* a store request either reaches the store or fails (error returned)
DbOk == dbErrorsLeft' = dbErrorsLeft
DbError == dbErrorsLeft > 0 /\ dbErrorsLeft' = dbErrorsLeft - 1

\* new Date() / Date.now(): the clock has advanced or not since its last reading
ClockRead(t) == t \in {now, now + 1} /\ t <= MaxTime /\ now' = t

\* variant: the update writes the payload's timestamps and counter but not its
\* status
UpdateTicketRow_KeepsStatus(id, payload) ==
  [db_tickets EXCEPT ![id] =
     [f \in DOMAIN @ |-> IF f \in DOMAIN payload /\ f # "status"
                           THEN payload[f] ELSE @[f]]]

\* .update(payload).eq('id', id) on table tickets: the rows after the update
UpdateTicketRow(id, payload) ==
  [i \in DOMAIN db_tickets |-> IF i = id THEN payload @@ db_tickets[i] ELSE db_tickets[i]]

\* .update(payload).eq('id', id) on table counters
UpdateCounterRow(id, payload) ==
  [k \in DOMAIN db_counters |-> IF k = id THEN payload @@ db_counters[k] ELSE db_counters[k]]

\* fk_current_ticket: current_ticket_id references tickets(id)
\* variant: a store without the constraint takes any ticket id
FkCurrentTicket_Unchecked(ticketId) == TRUE
FkCurrentTicket(ticketId) == ticketId = NULL \/ ticketId \in DOMAIN db_tickets

\* ------------------------------------------------------------- KioskView
\* currentTimeString >= start && currentTimeString <= end (zero-padded HH:MM
\* strings of equal length compare like the clock values they stand for)
InsideHours(t) ==
  t >= systemSettings.operatingHours.start /\ t <= systemSettings.operatingHours.end

\* the operating-hours effect and its checkTime, run at mount, on a change of
\* the settings and every 30 s
checkTime(c) ==
  /\ c = Kiosk /\ c \in mounted
  /\ IF ~systemSettings.operatingHours.enabled
       THEN /\ isShopOpen' = [isShopOpen EXCEPT ![c] = TRUE]
            /\ UNCHANGED now
       ELSE \E t \in 1..MaxTime :
              /\ ClockRead(t)
              /\ isShopOpen' = [isShopOpen EXCEPT ![c] = InsideHours(t)]
  /\ UNCHANGED << storeVars, inbox, cacheVars, sessionVars, handler, outcome,
                  resetVars, clientSet, historyVars, opsLeft, dbErrorsLeft,
                  configVars, isSendingNotification, notices, serviceEstimates >>

\* service_id TEXT REFERENCES services(id): an insert naming a service that
\* is not in the table is answered with an error
FkService(serviceId) == serviceId \in DOMAIN db_services

\* ------------------------------------------------------------- handleJoinQueue
\* the name a walk-in customer types, and the phone field left empty
WalkInName == "Ann"
NoPhone == << >>

\* the synchronous part: the service lookup and the client-side sequence number
\* (the frame's field known is history: whether the store had the service then)
handleJoinQueue(c, name, serviceId, phone) ==
  /\ c = Kiosk /\ c \in mounted
  /\ isShopOpen[c]
  /\ handler[c].pc = "idle"
  /\ opsLeft > 0
  /\ Some(services[c], LAMBDA s : s.id = serviceId)
  /\ LET service == Find(services[c], LAMBDA s : s.id = serviceId)
         count == Len(SelectSeq(tickets[c], LAMBDA t : t.serviceId = serviceId))
         seq == count + 1
     IN \E t \in 1..MaxTime :
          /\ ClockRead(t)
          /\ handler' = [handler EXCEPT ![c] =
               [ pc |-> "join_insert", number |-> TicketNumber(service.prefix, seq),
                 name |-> name, phone |-> phone,
                 serviceId |-> serviceId, serviceName |-> service.name,
                 joined_at |-> t, known |-> FkService(serviceId) ]]
  /\ opsLeft' = opsLeft - 1
  /\ outcome' = [outcome EXCEPT ![c] = "none"]
  /\ UNCHANGED << storeVars, inbox, cacheVars, sessionVars, resetVars,
                  clientSet, historyVars, dbErrorsLeft,
                  configVars, viewVars >>

\* a customer of the walk-in kiosk who leaves no phone number
JoinStart(c, serviceId) == handleJoinQueue(c, WalkInName, serviceId, NoPhone)

\* await supabase.from('tickets').insert(...).select().single(), and the
\* local fallback ticket on error
JoinInsert(c) ==
  /\ handler[c].pc = "join_insert"
  /\ LET h == handler[c] IN
     \/ /\ DbOk
        /\ FkService(h.serviceId)
        /\ nextId <= MaxTickets
        /\ LET row == [ id |-> nextId, number |-> h.number,
                        customer_name |-> h.name, phone |-> h.phone,
                        service_id |-> h.serviceId, service_name |-> h.serviceName,
                        status |-> WAITING, joined_at |-> h.joined_at,
                        served_at |-> NULL, completed_at |-> NULL,
                        counter_id |-> NULL ]
           IN /\ db_tickets' = (nextId :> row) @@ db_tickets
              /\ Publish(<< TicketEvent("INSERT", row) >>)
        /\ nextId' = nextId + 1
        /\ outcome' = [outcome EXCEPT ![c] = "ok"]
        /\ UNCHANGED << db_counters, cacheVars, now >>
     \/ /\ DbError \/ (DbOk /\ ~FkService(h.serviceId))
        /\ \E t \in 1..MaxTime :
             /\ ClockRead(t)
             /\ LET newTicket == [ id |-> TempId(t), number |-> h.number,
                                   name |-> h.name, phone |-> h.phone,
                                   serviceId |-> h.serviceId,
                                   serviceName |-> h.serviceName, status |-> WAITING,
                                   joinedAt |-> t, servedAt |-> NULL,
                                   completedAt |-> NULL, counter |-> NULL ]
                IN tickets' = [tickets EXCEPT ![c] = Append(@, newTicket)]
        /\ outcome' = [outcome EXCEPT ![c] = "local"]
        /\ UNCHANGED << storeVars, inbox, counters >>
  /\ handler' = [handler EXCEPT ![c] = Idle]
  /\ UNCHANGED << sessionVars, resetVars, clientSet, historyVars, opsLeft,
                  configVars, viewVars >>

\* what App keeps about a write that fell back to local state: the fallback
\* branches of handleJoinQueue and handleCallNext write to the console and to
\* tickets and counters, and no state of App or of a view records them
degradedMode(c) == FALSE

\* ------------------------------------------------------------- handleCancelTicket
\* ticketId ranges over the tickets the calling client knows
CancelTicket(c, ticketId) ==
  /\ c = Kiosk /\ c \in mounted
  /\ handler[c].pc = "idle"
  /\ opsLeft > 0
  /\ Some(tickets[c], LAMBDA t : t.id = ticketId)
  /\ \/ /\ DbOk
        /\ IF ticketId \in DOMAIN db_tickets
             THEN /\ db_tickets' = UpdateTicketRow(ticketId, [status |-> CANCELLED])
                  /\ Publish(<< TicketEvent("UPDATE", db_tickets'[ticketId]) >>)
             ELSE UNCHANGED << db_tickets, inbox >>
        /\ outcome' = [outcome EXCEPT ![c] = "ok"]
        /\ UNCHANGED tickets
     \/ /\ DbError
        /\ tickets' = [tickets EXCEPT ![c] =
             SeqMap(LAMBDA t : IF t.id = ticketId
                                 THEN [t EXCEPT !.status = CANCELLED] ELSE t, @)]
        /\ outcome' = [outcome EXCEPT ![c] = "local"]
        /\ UNCHANGED << db_tickets, inbox >>
  /\ opsLeft' = opsLeft - 1
  /\ UNCHANGED << db_counters, nextId, counters, sessionVars, handler, now,
                  resetVars, clientSet, historyVars,
                  configVars, viewVars >>

\* ------------------------------------------------------------- CounterView
\* counters.find(c => c.id === currentCounterId) exists and is open
MyCounterOpen(c) ==
  /\ c \in Staff /\ c \in mounted
  /\ staffCounterId[c] # NULL
  /\ Some(counters[c], LAMBDA k : k.id = staffCounterId[c])
  /\ Find(counters[c], LAMBDA k : k.id = staffCounterId[c]).isOpen

myCounter(c) == Find(counters[c], LAMBDA k : k.id = staffCounterId[c])

\* tickets.find(t => t.id === myCounter?.currentTicketId) is defined
HasCurrentTicket(c) ==
  Some(tickets[c], LAMBDA t : t.id = myCounter(c).currentTicketId)

currentTicket(c) == Find(tickets[c], LAMBDA t : t.id = myCounter(c).currentTicketId)

waitingCount(c) == Len(SelectSeq(tickets[c], LAMBDA t : t.status = WAITING))

\* ------------------------------------------------------------- handleCallNext
\* tickets.filter(WAITING).sort((a, b) => a.joinedAt - b.joinedAt)[0]: the sort
\* is stable, so the first of the waiting tickets with the least joinedAt
NextTicket(ts) ==
  LET waiting == SelectSeq(ts, LAMBDA t : t.status = WAITING)
  IN Find(waiting, LAMBDA t : \A i \in 1..Len(waiting) : t.joinedAt <= waiting[i].joinedAt)

\* the tickets that are WAITING in the store
StoreWaiting == {i \in DOMAIN db_tickets : db_tickets[i].status = WAITING}

\* the "Call Next Ticket" button of an open counter without a current ticket
\* (the frame's field queued is history: the number of tickets that were
\* WAITING in the store when the handler was invoked)
CallNextStart(c) ==
  /\ MyCounterOpen(c)
  /\ ~HasCurrentTicket(c)
  /\ waitingCount(c) > 0
  /\ handler[c].pc = "idle"
  /\ opsLeft > 0
  /\ \E t \in 1..MaxTime :
       /\ ClockRead(t)
       /\ handler' = [handler EXCEPT ![c] =
            [ pc |-> "call_update_ticket", nextTicketId |-> NextTicket(tickets[c]).id,
              counterId |-> staffCounterId[c], served_at |-> t,
              queued |-> Cardinality(StoreWaiting) ]]
  /\ opsLeft' = opsLeft - 1
  /\ outcome' = [outcome EXCEPT ![c] = "none"]
  /\ UNCHANGED << storeVars, inbox, cacheVars, sessionVars, resetVars,
                  clientSet, historyVars, dbErrorsLeft,
                  configVars, viewVars >>

\* the forced local update taken when the ticket update returns an error
CallNextFallback(c, t) ==
  LET h == handler[c] IN
  /\ tickets' = [tickets EXCEPT ![c] =
       SeqMap(LAMBDA x : IF x.id = h.nextTicketId
                           THEN [x EXCEPT !.status = SERVING, !.counter = h.counterId,
                                          !.servedAt = t]
                           ELSE x, @)]
  /\ counters' = [counters EXCEPT ![c] =
       SeqMap(LAMBDA k : IF k.id = h.counterId
                           THEN [k EXCEPT !.currentTicketId = h.nextTicketId]
                           ELSE k, @)]
  /\ claimed' = claimed \cup {<< h.nextTicketId, h.counterId >>}
  /\ handler' = [handler EXCEPT ![c] = Idle]
  /\ UNCHANGED << storeVars, inbox,
                  configVars, viewVars >>

\* the conditional update .eq('id', nextTicket.id).eq('status', WAITING)
\* .select().single(): .single() returns an error when no row matched
StillWaiting(ticketId) ==
  ticketId \in DOMAIN db_tickets /\ db_tickets[ticketId].status = WAITING

CallNextUpdateTicket(c) ==
  /\ handler[c].pc = "call_update_ticket"
  /\ LET h == handler[c] IN
     \/ /\ DbOk
        /\ StillWaiting(h.nextTicketId)
        /\ db_tickets' = UpdateTicketRow(h.nextTicketId,
             [status |-> SERVING, counter_id |-> h.counterId, served_at |-> h.served_at])
        /\ Publish(<< TicketEvent("UPDATE", db_tickets'[h.nextTicketId]) >>)
        /\ claimed' = claimed \cup {<< h.nextTicketId, h.counterId >>}
        /\ handler' = [handler EXCEPT ![c].pc = "call_update_counter"]
        /\ UNCHANGED << db_counters, nextId, cacheVars, now, outcome >>
     \/ /\ DbOk
        /\ ~StillWaiting(h.nextTicketId)
        /\ \E t \in 1..MaxTime : ClockRead(t) /\ CallNextFallback(c, t)
        /\ outcome' = [outcome EXCEPT ![c] = "stale"]
     \/ /\ DbError
        /\ \E t \in 1..MaxTime : ClockRead(t) /\ CallNextFallback(c, t)
        /\ outcome' = [outcome EXCEPT ![c] = "local"]
  /\ UNCHANGED << sessionVars, resetVars, clientSet, toggled, opsLeft,
                  configVars, viewVars >>

\* await supabase.from('counters').update({ current_ticket_id }).eq('id', counterId)
\* (its error is not looked at)
CallNextUpdateCounter(c) ==
  /\ handler[c].pc = "call_update_counter"
  /\ LET h == handler[c] IN
     \/ /\ DbOk
        /\ IF FkCurrentTicket(h.nextTicketId)
             THEN /\ db_counters' = UpdateCounterRow(h.counterId,
                                      [current_ticket_id |-> h.nextTicketId])
                  /\ Publish(<< CounterEvent(db_counters'[h.counterId]) >>)
             ELSE UNCHANGED << db_counters, inbox >>
     \/ /\ DbError
        /\ UNCHANGED << db_counters, inbox >>
  /\ handler' = [handler EXCEPT ![c] = Idle]
  /\ outcome' = [outcome EXCEPT ![c] = "ok"]
  /\ UNCHANGED << db_tickets, nextId, cacheVars, sessionVars, now, resetVars,
                  clientSet, historyVars, opsLeft,
                  configVars, viewVars >>

\* ------------------------------------------------------------- handleUpdateTicketStatus
\* the "Complete" and "No Show" buttons of the current ticket
UpdateStatusStart(c, status) ==
  /\ MyCounterOpen(c)
  /\ HasCurrentTicket(c)
  /\ handler[c].pc = "idle"
  /\ opsLeft > 0
  /\ LET ticketId == currentTicket(c).id
         holds(k) == k.currentTicketId = ticketId
         frame == [ pc |-> "status_update_ticket", ticketId |-> ticketId,
                    status |-> status,
                    counter |-> IF Some(counters[c], holds)
                                  THEN Find(counters[c], holds).id ELSE NULL ]
     IN IF status = COMPLETED
          THEN \E t \in 1..MaxTime :
                 /\ ClockRead(t)
                 /\ handler' = [handler EXCEPT ![c] = [completed_at |-> t] @@ frame]
          ELSE /\ handler' = [handler EXCEPT ![c] = [completed_at |-> NULL] @@ frame]
               /\ UNCHANGED now
  /\ opsLeft' = opsLeft - 1
  /\ outcome' = [outcome EXCEPT ![c] = "none"]
  /\ UNCHANGED << storeVars, inbox, cacheVars, sessionVars, resetVars,
                  clientSet, historyVars, dbErrorsLeft,
                  configVars, viewVars >>

\* await supabase.from('tickets').update(updatePayload).eq('id', ticketId)
UpdateStatusTicket(c) ==
  /\ handler[c].pc = "status_update_ticket"
  /\ LET h == handler[c]
         updatePayload == IF h.status = COMPLETED
                            THEN [status |-> h.status, completed_at |-> h.completed_at]
                            ELSE [status |-> h.status]
     IN
     /\ \/ /\ DbOk
           /\ IF h.ticketId \in DOMAIN db_tickets
                THEN /\ db_tickets' = UpdateTicketRow(h.ticketId, updatePayload)
                     /\ Publish(<< TicketEvent("UPDATE", db_tickets'[h.ticketId]) >>)
                ELSE UNCHANGED << db_tickets, inbox >>
           /\ UNCHANGED << tickets, now >>
        \/ /\ DbError
           /\ \E t \in 1..MaxTime :
                /\ IF h.status = COMPLETED THEN ClockRead(t) ELSE t = now /\ UNCHANGED now
                /\ tickets' = [tickets EXCEPT ![c] =
                     SeqMap(LAMBDA x : IF x.id = h.ticketId
                              THEN [x EXCEPT !.status = h.status,
                                             !.completedAt = IF h.status = COMPLETED
                                                               THEN t ELSE NULL]
                              ELSE x, @)]
           /\ UNCHANGED << db_tickets, inbox >>
     /\ IF h.counter # NULL
          THEN /\ handler' = [handler EXCEPT ![c].pc = "status_update_counter"]
               /\ UNCHANGED outcome
          ELSE /\ handler' = [handler EXCEPT ![c] = Idle]
               /\ outcome' = [outcome EXCEPT ![c] = "ok"]
  /\ UNCHANGED << db_counters, nextId, counters, sessionVars, resetVars,
                  clientSet, historyVars, opsLeft,
                  configVars, viewVars >>

\* Release counter: .update({ current_ticket_id: null }).eq('id', counter.id)
UpdateStatusCounter(c) ==
  /\ handler[c].pc = "status_update_counter"
  /\ LET h == handler[c] IN
     \/ /\ DbOk
        /\ db_counters' = UpdateCounterRow(h.counter, [current_ticket_id |-> NULL])
        /\ Publish(<< CounterEvent(db_counters'[h.counter]) >>)
        /\ UNCHANGED counters
     \/ /\ DbError
        /\ counters' = [counters EXCEPT ![c] =
             SeqMap(LAMBDA k : IF k.id = h.counter
                                 THEN [k EXCEPT !.currentTicketId = NULL] ELSE k, @)]
        /\ UNCHANGED << db_counters, inbox >>
  /\ handler' = [handler EXCEPT ![c] = Idle]
  /\ outcome' = [outcome EXCEPT ![c] = "ok"]
  /\ UNCHANGED << db_tickets, nextId, tickets, sessionVars, now, resetVars,
                  clientSet, historyVars, opsLeft,
                  configVars, viewVars >>

\* ------------------------------------------------------------- handleToggleCounter
\* variant: closing or opening a counter also releases its current ticket
TogglePayload_ReleasesTicket(counter) ==
  [ is_open |-> ~counter.isOpen, current_ticket_id |-> NULL ]

\* { is_open: !counter.isOpen }, from the counter of the client's cache
TogglePayload(counter) == [ is_open |-> ~counter.isOpen ]

\* "Open Counter" of a closed counter, "Close Counter" of an open counter
\* that shows no current ticket
handleToggleCounter(c) ==
  /\ c \in Staff /\ c \in mounted
  /\ staffCounterId[c] # NULL
  /\ Some(counters[c], LAMBDA k : k.id = staffCounterId[c])
  /\ ~myCounter(c).isOpen \/ ~HasCurrentTicket(c)
  /\ handler[c].pc = "idle"
  /\ opsLeft > 0
  /\ handler' = [handler EXCEPT ![c] =
       [ pc |-> "toggle_update", counterId |-> staffCounterId[c],
         payload |-> TogglePayload(myCounter(c)) ]]
  /\ opsLeft' = opsLeft - 1
  /\ outcome' = [outcome EXCEPT ![c] = "none"]
  /\ UNCHANGED << storeVars, inbox, cacheVars, sessionVars, now, resetVars,
                  clientSet, historyVars, dbErrorsLeft,
                  configVars, viewVars >>

\* .update({ is_open: !counter.isOpen }).eq('id', counterId); on an error
\* the cached counter is flipped
ToggleUpdate(c) ==
  /\ handler[c].pc = "toggle_update"
  /\ LET h == handler[c] IN
     \/ /\ DbOk
        /\ db_counters' = UpdateCounterRow(h.counterId, h.payload)
        /\ Publish(<< CounterEvent(db_counters'[h.counterId]) >>)
        /\ toggled' = [toggled EXCEPT ![h.counterId] =
             Append(@, << db_counters[h.counterId].is_open,
                          db_counters'[h.counterId].is_open >>)]
        /\ UNCHANGED counters
     \/ /\ DbError
        /\ counters' = [counters EXCEPT ![c] =
             SeqMap(LAMBDA k : IF k.id = h.counterId
                                 THEN [k EXCEPT !.isOpen = ~k.isOpen] ELSE k, @)]
        /\ UNCHANGED << db_counters, inbox, toggled >>
  /\ handler' = [handler EXCEPT ![c] = Idle]
  /\ outcome' = [outcome EXCEPT ![c] = "ok"]
  /\ UNCHANGED << db_tickets, nextId, tickets, sessionVars, now, resetVars,
                  clientSet, claimed, opsLeft,
                  configVars, viewVars >>

\* ------------------------------------------------------------- sessions
\* staff members are numbered like the staff devices: user u may log in on
\* any staff device
\* handleLogin: the account is found in the loaded users (local) or by the
\* query on app_users; only the second path restores the saved counter
handleLogin(c, u) ==
  /\ c \in Staff /\ c \in mounted
  /\ currentUser[c] = NULL
  /\ handler[c].pc = "idle"
  /\ opsLeft > 0
  /\ currentUser' = [currentUser EXCEPT ![c] = u]
  /\ \E localUser \in BOOLEAN :
       IF localUser \/ savedCounter[c][u] = NULL
         THEN UNCHANGED staffCounterId
         ELSE staffCounterId' = [staffCounterId EXCEPT ![c] = savedCounter[c][u]]
  /\ opsLeft' = opsLeft - 1
  /\ UNCHANGED << storeVars, inbox, cacheVars, savedCounter, released, handler,
                  outcome, now, resetVars, clientSet, historyVars, dbErrorsLeft,
                  configVars, viewVars >>

\* handleLogout: the release of the counter is sent and not awaited
handleLogout(c) ==
  /\ c \in Staff /\ c \in mounted
  /\ currentUser[c] # NULL
  /\ handler[c].pc = "idle"
  /\ opsLeft > 0
  /\ IF staffCounterId[c] # NULL
       THEN /\ released' = [released EXCEPT ![c] = @ \cup {staffCounterId[c]}]
            /\ staffCounterId' = [staffCounterId EXCEPT ![c] = NULL]
       ELSE UNCHANGED << released, staffCounterId >>
  /\ currentUser' = [currentUser EXCEPT ![c] = NULL]
  /\ opsLeft' = opsLeft - 1
  /\ UNCHANGED << storeVars, inbox, cacheVars, savedCounter, handler, outcome,
                  now, resetVars, clientSet, historyVars, dbErrorsLeft,
                  configVars, viewVars >>

\* .update({ assigned_staff_id: null }).eq('id', staffCounterId).then()
LogoutRelease(c, k) ==
  /\ k \in released[c]
  /\ released' = [released EXCEPT ![c] = @ \ {k}]
  /\ \/ /\ DbOk
        /\ db_counters' = UpdateCounterRow(k, [assigned_staff_id |-> NULL])
        /\ Publish(<< CounterEvent(db_counters'[k]) >>)
     \/ /\ DbError
        /\ UNCHANGED << db_counters, inbox >>
  /\ UNCHANGED << db_tickets, nextId, cacheVars, staffCounterId, currentUser,
                  savedCounter, handler, outcome, now, resetVars, clientSet,
                  historyVars, opsLeft,
                  configVars, viewVars >>

\* the counter-selection screen: a counter is disabled when it is assigned
\* to another staff member
isOccupied(c, k) ==
  k.assignedStaffId # NULL /\ k.assignedStaffId # currentUser[c]

\* handleStaffSelectCounter: local selection, then the assignment is written
handleStaffSelectCounter(c, counterId) ==
  /\ c \in Staff /\ c \in mounted
  /\ currentUser[c] # NULL
  /\ staffCounterId[c] = NULL
  /\ Some(counters[c], LAMBDA k : k.id = counterId /\ ~isOccupied(c, k))
  /\ handler[c].pc = "idle"
  /\ opsLeft > 0
  /\ staffCounterId' = [staffCounterId EXCEPT ![c] = counterId]
  /\ savedCounter' = [savedCounter EXCEPT ![c][currentUser[c]] = counterId]
  /\ handler' = [handler EXCEPT ![c] =
       [ pc |-> "select_update", counterId |-> counterId,
         userId |-> currentUser[c] ]]
  /\ opsLeft' = opsLeft - 1
  /\ outcome' = [outcome EXCEPT ![c] = "none"]
  /\ UNCHANGED << storeVars, inbox, cacheVars, currentUser, released, now,
                  resetVars, clientSet, historyVars, dbErrorsLeft,
                  configVars, viewVars >>

\* .update({ assigned_staff_id: currentUser.id }).eq('id', counterId)
StaffSelectUpdate(c) ==
  /\ handler[c].pc = "select_update"
  /\ LET h == handler[c] IN
     \/ /\ DbOk
        /\ db_counters' = UpdateCounterRow(h.counterId, [assigned_staff_id |-> h.userId])
        /\ Publish(<< CounterEvent(db_counters'[h.counterId]) >>)
        /\ UNCHANGED counters
     \/ /\ DbError
        /\ counters' = [counters EXCEPT ![c] =
             SeqMap(LAMBDA k : IF k.id = h.counterId
                                 THEN [k EXCEPT !.assignedStaffId = h.userId] ELSE k, @)]
        /\ UNCHANGED << db_counters, inbox >>
  /\ handler' = [handler EXCEPT ![c] = Idle]
  /\ outcome' = [outcome EXCEPT ![c] = "ok"]
  /\ UNCHANGED << db_tickets, nextId, tickets, sessionVars, now, resetVars,
                  clientSet, historyVars, opsLeft,
                  configVars, viewVars >>

\* handleStaffLeaveCounter ("Change Counter" of the CounterView)
handleStaffLeaveCounter(c) ==
  /\ c \in Staff /\ c \in mounted
  /\ currentUser[c] # NULL
  /\ staffCounterId[c] # NULL
  /\ handler[c].pc = "idle"
  /\ opsLeft > 0
  /\ handler' = [handler EXCEPT ![c] =
       [ pc |-> "leave_update", counterId |-> staffCounterId[c],
         userId |-> currentUser[c] ]]
  /\ opsLeft' = opsLeft - 1
  /\ outcome' = [outcome EXCEPT ![c] = "none"]
  /\ UNCHANGED << storeVars, inbox, cacheVars, sessionVars, now, resetVars,
                  clientSet, historyVars, dbErrorsLeft,
                  configVars, viewVars >>

\* .update({ assigned_staff_id: null }).eq('id', staffCounterId), then the
\* local selection and its saved copy are dropped
StaffLeaveUpdate(c) ==
  /\ handler[c].pc = "leave_update"
  /\ LET h == handler[c] IN
     /\ \/ /\ DbOk
           /\ db_counters' = UpdateCounterRow(h.counterId, [assigned_staff_id |-> NULL])
           /\ Publish(<< CounterEvent(db_counters'[h.counterId]) >>)
           /\ UNCHANGED counters
        \/ /\ DbError
           /\ counters' = [counters EXCEPT ![c] =
                SeqMap(LAMBDA k : IF k.id = h.counterId
                                    THEN [k EXCEPT !.assignedStaffId = NULL] ELSE k, @)]
           /\ UNCHANGED << db_counters, inbox >>
     /\ staffCounterId' = [staffCounterId EXCEPT ![c] = NULL]
     /\ savedCounter' = [savedCounter EXCEPT ![c][h.userId] = NULL]
  /\ handler' = [handler EXCEPT ![c] = Idle]
  /\ outcome' = [outcome EXCEPT ![c] = "ok"]
  /\ UNCHANGED << db_tickets, nextId, tickets, currentUser, released, now,
                  resetVars, clientSet, historyVars, opsLeft,
                  configVars, viewVars >>

\* ------------------------------------------------------------- DisplayView
\* new Date(t.served_at).getTime() and Date.now(): one value of the clock is
\* five minutes
ToMs(t) == t * (5 * 60 * 1000)

RECURSIVE SumSeq(_)
SumSeq(q) == IF q = << >> THEN 0 ELSE Head(q) + SumSeq(Tail(q))

\* Math.ceil(a / b) for a >= 0, b > 0
Ceil(a, b) == (a + b - 1) \div b

Max(a, b) == IF a >= b THEN a ELSE b

\* (service.defaultWaitTime || 5): the services loaded through
\* mapDbServiceToApp carry no defaultWaitTime
defaultWaitTimeOr5(service) ==
  IF "defaultWaitTime" \in DOMAIN service /\ service.defaultWaitTime # 0
    THEN service.defaultWaitTime ELSE 5

\* standardTimes[t.serviceId] || 300000
standardTimes(c, serviceId) ==
  IF Some(services[c], LAMBDA x : x.id = serviceId)
    THEN defaultWaitTimeOr5(Find(services[c], LAMBDA x : x.id = serviceId)) * 60 * 1000
    ELSE 300000

\* variant: an overdue ticket counts nothing
remaining_NoFloor(duration, elapsed) == Max(0, duration - elapsed)

\* Math.max(30000, duration - elapsed)
remaining(duration, elapsed) == Max(30000, duration - elapsed)

\* one summand of servingBacklog
servingTime(c, t, calcNow) ==
  IF t.servedAt = NULL \/ ToMs(t.servedAt) > calcNow
    THEN standardTimes(c, t.serviceId)
    ELSE remaining(standardTimes(c, t.serviceId), calcNow - ToMs(t.servedAt))

\* counters.filter(c => c.isOpen).length || 1
activeCountersCount(c) ==
  LET open == Len(SelectSeq(counters[c], LAMBDA k : k.isOpen))
  IN IF open = 0 THEN 1 ELSE open

serviceIds(c) == {services[c][i].id : i \in DOMAIN services[c]}

\* variant: an empty system shows the default wait of five minutes
zeroEstimates_Default(c) == [id \in serviceIds(c) |-> 5]

\* services.forEach(s => zeroEstimates[s.id] = 0)
zeroEstimates(c) == [id \in serviceIds(c) |-> 0]

\* the estimates calculateWaitTimes computes at clock value calcNow (ms)
estimates(c, calcNow) ==
  LET currentlyServing == SelectSeq(tickets[c], LAMBDA t : t.status = SERVING)
      allWaiting == SelectSeq(tickets[c], LAMBDA t : t.status = WAITING)
      servingBacklog ==
        SumSeq(SeqMap(LAMBDA t : servingTime(c, t, calcNow), currentlyServing))
      waitingBacklog ==
        SumSeq(SeqMap(LAMBDA t : standardTimes(c, t.serviceId), allWaiting))
      totalBacklog == servingBacklog + waitingBacklog
      estMinutes == Ceil(totalBacklog, activeCountersCount(c) * 60000)
  IN IF currentlyServing = << >> /\ allWaiting = << >>
       THEN zeroEstimates(c)
       ELSE [id \in serviceIds(c) |-> estMinutes]

\* calculateWaitTimes, run by the DisplayView of device c at mount and every
\* 5 s
calculateWaitTimes(c) ==
  /\ c \in mounted
  /\ \E t \in 1..MaxTime :
       /\ ClockRead(t)
       /\ serviceEstimates' = [serviceEstimates EXCEPT ![c] = estimates(c, ToMs(t))]
  /\ UNCHANGED << storeVars, inbox, cacheVars, sessionVars, handler, outcome,
                  resetVars, clientSet, historyVars, opsLeft, dbErrorsLeft,
                  configVars, isShopOpen, isSendingNotification, notices >>

\* ------------------------------------------------------------- sendWhatsAppNotification
\* Texts are sequences of pieces: a placeholder, a substituted value and a run
\* of other text are one piece each.
\* String.prototype.replace with a string pattern: the first occurrence only
replace(text, pattern, value) ==
  IF Some(text, LAMBDA piece : piece = pattern)
    THEN LET first == CHOOSE i \in 1..Len(text) :
                        text[i] = pattern /\ \A j \in 1..(i - 1) : text[j] # pattern
         IN [text EXCEPT ![first] = value]
    ELSE text

\* one pass over the template, every placeholder replaced at once
replaceAll_OnePass(text, ticket, counterId) ==
  [i \in 1..Len(text) |->
     CASE text[i] = "{name}" -> ticket.name
       [] text[i] = "{number}" -> ticket.number
       [] text[i] = "{service}" -> ticket.serviceName
       [] text[i] = "{counter}" -> ToString(counterId)
       [] OTHER -> text[i]]

\* the message: four replace calls, each on the result of the one before
renderMessage(template, ticket, counterId) ==
  replace(replace(replace(replace(template,
    "{name}", ticket.name),
    "{number}", ticket.number),
    "{service}", ticket.serviceName),
    "{counter}", ToString(counterId))

\* phone.replace(/[^0-9]/g, '')
digitsOf(phone) ==
  SelectSeq(phone, LAMBDA ch : ch \in {"0", "1", "2", "3", "4", "5", "6", "7", "8", "9"})

\* window.open of https://wa.me/<digits>?text=<message>
openDeepLink(phone, message) ==
  [ kind |-> "open", phone |-> digitsOf(phone), message |-> message ]

\* the POST to /api/send-whatsapp
fetchSendWhatsapp(ticket, message) ==
  [ kind |-> "fetch", phone |-> ticket.phone, message |-> message ]

\* alert('Notification sent successfully!')
alertSent(request) ==
  [ kind |-> "alert", phone |-> request.phone, message |-> request.message ]

\* the early return of line 147
notifyReturns(c) ==
  \/ ~(staffCounterId[c] # NULL
       /\ Some(counters[c], LAMBDA k : k.id = staffCounterId[c])
       /\ HasCurrentTicket(c))
  \/ currentTicket(c).phone = NoPhone
  \/ ~systemSettings.whatsappEnabled
  \/ isSendingNotification[c]

\* the call, up to the await of fetch (with an API key) or to its end
sendWhatsAppNotification(c) ==
  /\ c \in Staff /\ c \in mounted
  /\ opsLeft > 0
  /\ opsLeft' = opsLeft - 1
  /\ IF notifyReturns(c)
       THEN UNCHANGED << isSendingNotification, notices >>
       ELSE LET message == renderMessage(systemSettings.whatsappTemplate,
                                         currentTicket(c), staffCounterId[c])
            IN IF systemSettings.whatsappApiKey # ""
                 THEN /\ isSendingNotification' =
                           [isSendingNotification EXCEPT ![c] = TRUE]
                      /\ notices' = [notices EXCEPT ![c] =
                           Append(@, fetchSendWhatsapp(currentTicket(c), message))]
                 ELSE /\ notices' = [notices EXCEPT ![c] =
                           Append(@, openDeepLink(currentTicket(c).phone, message))]
                      /\ UNCHANGED isSendingNotification
  /\ UNCHANGED << storeVars, inbox, cacheVars, sessionVars, handler, outcome,
                  resetVars, clientSet, historyVars, dbErrorsLeft, now,
                  configVars, isShopOpen, serviceEstimates >>

\* the answers of the backend: a 2xx, another status, a rejected fetch
Answers == {"ok", "not_ok", "network_error"}

\* what follows the await: alert on response.ok, openDeepLink in the else
\* branch and in catch
afterFetch_NoCatch(request, answer) ==
  CASE answer = "ok" -> << alertSent(request) >>
    [] answer = "not_ok" -> << openDeepLink(request.phone, request.message) >>
    [] OTHER -> << >>

afterFetch(request, answer) ==
  IF answer = "ok" THEN << alertSent(request) >>
  ELSE << openDeepLink(request.phone, request.message) >>

\* the fetch settles: the rest of try, catch and finally
fetchSettles(c, answer) ==
  /\ isSendingNotification[c]
  /\ notices' = [notices EXCEPT ![c] = @ \o afterFetch(@[Len(@)], answer)]
  /\ isSendingNotification' = [isSendingNotification EXCEPT ![c] = FALSE]
  /\ UNCHANGED << storeVars, inbox, cacheVars, sessionVars, handler, outcome,
                  resetVars, clientSet, historyVars, opsLeft, dbErrorsLeft, now,
                  configVars, isShopOpen, serviceEstimates >>

\* ------------------------------------------------------------- services
\* the rows of tickets that reference service id (ON DELETE CASCADE)
TicketsOfService(id) == {i \in DOMAIN db_tickets : db_tickets[i].service_id = id}

\* the counters whose current ticket is among the deleted tickets
\* (fk_current_ticket ... ON DELETE SET NULL)
CountersHolding(deleted) ==
  {k \in DOMAIN db_counters : db_counters[k].current_ticket_id \in deleted}

\* DELETE FROM services WHERE id = ...: the delete cascades to the tickets of
\* the service, and the counters serving them lose their current ticket
DeleteServiceRow(id) ==
  LET gone == TicketsOfService(id)
      freed == CountersHolding(gone)
  IN /\ db_services' = [i \in DOMAIN db_services \ {id} |-> db_services[i]]
     /\ db_tickets' = [i \in DOMAIN db_tickets \ gone |-> db_tickets[i]]
     /\ db_counters' = [k \in DOMAIN db_counters |->
                          IF k \in freed
                            THEN [db_counters[k] EXCEPT !.current_ticket_id = NULL]
                            ELSE db_counters[k]]
     /\ Publish(<< ServiceEvent("DELETE", [id |-> id]) >>
                \o SeqMap(LAMBDA i : TicketEvent("DELETE", [id |-> i]), SortedSeq(gone))
                \o SeqMap(LAMBDA k : CounterEvent(db_counters'[k]), SortedSeq(freed)))

\* handleDeleteService, on the administrator's device c
handleDeleteService(c, id) ==
  /\ c \in mounted
  /\ handler[c].pc = "idle"
  /\ opsLeft > 0
  /\ Some(services[c], LAMBDA s : s.id = id)
  /\ \/ /\ DbOk
        /\ IF id \in DOMAIN db_services
             THEN DeleteServiceRow(id)
             ELSE UNCHANGED << db_tickets, db_counters, db_services, inbox >>
        /\ UNCHANGED services
     \/ /\ DbError
        /\ services' = [services EXCEPT ![c] = SelectSeq(@, LAMBDA s : s.id # id)]
        /\ UNCHANGED << db_tickets, db_counters, db_services, inbox >>
  /\ opsLeft' = opsLeft - 1
  /\ UNCHANGED << nextId, cacheVars, sessionVars, handler, outcome, now,
                  resetVars, clientSet, historyVars, systemSettings, viewVars >>

\* handleUpdateService with updates = { name }, on the administrator's device
handleUpdateService(c, id, name) ==
  /\ c \in mounted
  /\ handler[c].pc = "idle"
  /\ opsLeft > 0
  /\ Some(services[c], LAMBDA s : s.id = id)
  /\ \/ /\ DbOk
        /\ IF id \in DOMAIN db_services
             THEN /\ db_services' = [db_services EXCEPT ![id].name = name]
                  /\ Publish(<< ServiceEvent("UPDATE", db_services'[id]) >>)
             ELSE UNCHANGED << db_services, inbox >>
        /\ UNCHANGED services
     \/ /\ DbError
        /\ services' = [services EXCEPT ![c] =
             SeqMap(LAMBDA s : IF s.id = id THEN [s EXCEPT !.name = name] ELSE s, @)]
        /\ UNCHANGED << db_services, inbox >>
  /\ opsLeft' = opsLeft - 1
  /\ UNCHANGED << db_tickets, db_counters, nextId, cacheVars, sessionVars,
                  handler, outcome, now, resetVars, clientSet, historyVars,
                  systemSettings, viewVars >>

\* ------------------------------------------------------------- change feed
\* the postgres_changes callbacks of the tickets, counters and services
\* channels
ApplyEvent(c, e) ==
  IF e.table = "services" THEN
    /\ services' = [services EXCEPT ![c] =
         CASE e.eventType = "INSERT" -> Append(@, mapDbServiceToApp(e.row))
           [] e.eventType = "UPDATE" ->
                SeqMap(LAMBDA x : IF x.id = e.row.id THEN mapDbServiceToApp(e.row) ELSE x, @)
           [] e.eventType = "DELETE" -> SelectSeq(@, LAMBDA x : x.id # e.row.id)]
    /\ UNCHANGED << tickets, counters >>
  ELSE IF e.table = "tickets" THEN
    /\ tickets' = [tickets EXCEPT ![c] =
         CASE e.eventType = "INSERT" -> Append(@, mapDbTicketToApp(e.row))
           [] e.eventType = "UPDATE" ->
                SeqMap(LAMBDA t : IF t.id = e.row.id THEN mapDbTicketToApp(e.row) ELSE t, @)
           [] e.eventType = "DELETE" -> SelectSeq(@, LAMBDA t : t.id # e.row.id)]
    /\ UNCHANGED << counters, services >>
  ELSE
    /\ counters' = [counters EXCEPT ![c] =
         SeqMap(LAMBDA k : IF k.id = e.row.id THEN mapDbCounterToApp(e.row) ELSE k, @)]
    /\ UNCHANGED << tickets, services >>

Deliver(c) ==
  /\ inbox[c] # << >>
  /\ ApplyEvent(c, Head(inbox[c]))
  /\ inbox' = [inbox EXCEPT ![c] = Tail(@)]
  /\ UNCHANGED << storeVars, sessionVars, handler, outcome, now, resetVars,
                  clientSet, historyVars, opsLeft, dbErrorsLeft,
                  db_services, systemSettings, viewVars >>

\* ------------------------------------------------------------- fetchData
\* .from('tickets').select('*').order('joined_at'): the rows by joined_at
\* (rows of equal joined_at by id)
RECURSIVE OrderByJoinedAt(_)
OrderByJoinedAt(ids) ==
  IF ids = {} THEN << >>
  ELSE LET first == CHOOSE i \in ids : \A j \in ids :
                      \/ db_tickets[i].joined_at < db_tickets[j].joined_at
                      \/ /\ db_tickets[i].joined_at = db_tickets[j].joined_at
                         /\ i <= j
       IN << db_tickets[first] >> \o OrderByJoinedAt(ids \ {first})

\* what select('*') on a table answers
SelectAll(table) ==
  CASE table = "services" ->
         LET ids == {INITIAL_SERVICES[i].id : i \in DOMAIN INITIAL_SERVICES}
         IN SelectSeq([i \in DOMAIN INITIAL_SERVICES |-> INITIAL_SERVICES[i].id],
                      LAMBDA id : id \in DOMAIN db_services)
    [] table = "counters" -> SortedSeq(DOMAIN db_counters)
    [] table = "tickets" -> OrderByJoinedAt(DOMAIN db_tickets)

\* the rows of an answer (the services and counters are answered by id)
FetchedRows(table, data) ==
  CASE table = "services" -> SeqMap(LAMBDA id : db_services[id], data)
    [] table = "counters" -> SeqMap(LAMBDA k : db_counters[k], data)
    [] table = "tickets" -> data

\* the mock counters of demo mode
MockCounters ==
  [k \in Counters |-> [ id |-> k, isOpen |-> TRUE, assignedStaffId |-> NULL,
                        currentTicketId |-> NULL ]]

\* the table fetchData reads after table
NextTable(table) ==
  CASE table = "services" -> "counters"
    [] table = "counters" -> "tickets"
    [] table = "tickets" -> "none"

\* the application starts on device c: the effect calls fetchData and sets up
\* the realtime channels
Mount(c) ==
  /\ c \notin mounted
  /\ mounted' = mounted \cup {c}
  /\ handler' = [handler EXCEPT ![c] = [ pc |-> "fetch_query", table |-> "services" ]]
  /\ UNCHANGED << storeVars, inbox, cacheVars, sessionVars, outcome, now,
                  resetVars, subscribed, historyVars, opsLeft, dbErrorsLeft,
                  configVars, viewVars >>

\* a select of fetchData is answered by the store (data) or fails (no data)
fetchQuery(c) ==
  /\ handler[c].pc = "fetch_query"
  /\ \/ /\ DbOk
        /\ handler' = [handler EXCEPT ![c] =
             [ pc |-> "fetch_apply", table |-> handler[c].table, failed |-> FALSE,
               data |-> FetchedRows(handler[c].table, SelectAll(handler[c].table)) ]]
     \/ /\ DbError
        /\ handler' = [handler EXCEPT ![c] =
             [ pc |-> "fetch_apply", table |-> handler[c].table, failed |-> TRUE,
               data |-> << >> ]]
  /\ UNCHANGED << storeVars, inbox, cacheVars, sessionVars, outcome, now,
                  resetVars, clientSet, historyVars, opsLeft,
                  configVars, viewVars >>

\* the answer arrives: setServices, setCounters or setTickets, and the next
\* select is sent
fetchApply(c) ==
  /\ handler[c].pc = "fetch_apply"
  /\ LET h == handler[c] IN
     /\ CASE h.table = "services" ->
              /\ services' = [services EXCEPT ![c] =
                    IF h.data # << >> THEN SeqMap(mapDbServiceToApp, h.data)
                    ELSE SeqMap(mapDbServiceToApp, INITIAL_SERVICES)]
              /\ UNCHANGED << tickets, counters >>
          [] h.table = "counters" ->
              /\ counters' = [counters EXCEPT ![c] =
                    IF h.data # << >> THEN SeqMap(mapDbCounterToApp, h.data)
                    ELSE MockCounters]
              /\ UNCHANGED << tickets, services >>
          [] h.table = "tickets" ->
              /\ tickets' = [tickets EXCEPT ![c] =
                    IF h.failed THEN @ ELSE SeqMap(mapDbTicketToApp, h.data)]
              /\ UNCHANGED << counters, services >>
     /\ handler' = [handler EXCEPT ![c] =
          IF NextTable(h.table) = "none" THEN Idle
          ELSE [ pc |-> "fetch_query", table |-> NextTable(h.table) ]]
  /\ UNCHANGED << storeVars, inbox, sessionVars, outcome, now, resetVars,
                  clientSet, historyVars, opsLeft, dbErrorsLeft,
                  db_services, systemSettings, viewVars >>

\* .subscribe(): the realtime channels of a running client get connected; the
\* changes made before that are not replayed to it
Subscribe(c) ==
  /\ c \in mounted \ subscribed
  /\ subscribed' = subscribed \cup {c}
  /\ UNCHANGED << storeVars, inbox, cacheVars, sessionVars, handler, outcome,
                  now, resetVars, mounted, historyVars, opsLeft, dbErrorsLeft,
                  configVars, viewVars >>

\* ------------------------------------------------------------- daily reset
\* the events of a reset: the deleted tickets, then every counter row
ResetEvents(deleted) ==
  SeqMap(LAMBDA id : TicketEvent("DELETE", [id |-> id]), SortedSeq(deleted))
  \o [k \in Counters |-> CounterEvent(db_counters'[k])]

\* variant: only the tickets in a terminal status are deleted (as "clear
\* history" does) and the counters are left alone
reset_keeps_active ==
  LET gone == {i \in DOMAIN db_tickets :
                 db_tickets[i].status \in {COMPLETED, CANCELLED, NO_SHOW}}
  IN /\ db_tickets' = [i \in DOMAIN db_tickets \ gone |-> db_tickets[i]]
     /\ db_counters' = db_counters
     /\ Publish(ResetEvents(gone))
     /\ wipes' = [wipes EXCEPT ![today] = @ + 1]

\* variant: the reset also clears the staff assignment of every counter
reset_clears_staff ==
  /\ db_tickets' = << >>
  /\ db_counters' = [k \in DOMAIN db_counters |->
                       [db_counters[k] EXCEPT !.current_ticket_id = NULL,
                                              !.assigned_staff_id = NULL]]
  /\ Publish(ResetEvents(DOMAIN db_tickets))
  /\ wipes' = [wipes EXCEPT ![today] = @ + 1]

\* reset_daily_queue(): DELETE FROM tickets; UPDATE counters SET
\* current_ticket_id = NULL; in one transaction
reset_daily_queue ==
  /\ db_tickets' = << >>
  /\ db_counters' = [k \in DOMAIN db_counters |->
                       [db_counters[k] EXCEPT !.current_ticket_id = NULL]]
  /\ Publish(ResetEvents(DOMAIN db_tickets))
  /\ wipes' = [wipes EXCEPT ![today] = @ + 1]

SpendReset ==
  /\ resetsLeft # 0
  /\ resetsLeft' = IF resetsLeft > 0 THEN resetsLeft - 1 ELSE resetsLeft

\* checkAndPerformReset up to its await: the date comparison
ResetTick(c) ==
  /\ c \in mounted
  /\ Len(resetCalls[c]) < MaxInFlight
  /\ lastResetDate[c] # today
  /\ SpendReset
  /\ resetCalls' = [resetCalls EXCEPT ![c] = Append(@, today)]
  /\ UNCHANGED << storeVars, inbox, cacheVars, sessionVars, handler, outcome,
                  now, today, lastResetDate, cronLast, clientSet, wipes, rpcErrors,
                  historyVars, opsLeft, dbErrorsLeft,
                  configVars, viewVars >>

RemoveAt(s, i) == SubSeq(s, 1, i - 1) \o SubSeq(s, i + 1, Len(s))

\* await supabase.rpc('reset_daily_queue') answers without error
ResetRpcOk(c, i) ==
  /\ i \in 1..Len(resetCalls[c])
  /\ DbOk
  /\ reset_daily_queue
  /\ lastResetDate' = [lastResetDate EXCEPT ![c] = resetCalls[c][i]]
  /\ resetCalls' = [resetCalls EXCEPT ![c] = RemoveAt(@, i)]
  /\ UNCHANGED << nextId, cacheVars, sessionVars, handler, outcome, now, today,
                  cronLast, clientSet, rpcErrors, historyVars, opsLeft, resetsLeft,
                  configVars, viewVars >>

\* variant: localStorage.setItem(RESET_KEY, today) runs whatever the RPC answers
ResetRpcError_SetsDate(c, i) ==
  /\ i \in 1..Len(resetCalls[c])
  /\ DbError
  /\ lastResetDate' = [lastResetDate EXCEPT ![c] = resetCalls[c][i]]
  /\ resetCalls' = [resetCalls EXCEPT ![c] = RemoveAt(@, i)]
  /\ rpcErrors' = [rpcErrors EXCEPT ![c] = @ + 1]
  /\ UNCHANGED << storeVars, inbox, cacheVars, sessionVars, handler, outcome,
                  now, today, cronLast, clientSet, wipes, historyVars, opsLeft,
                  resetsLeft,
                  configVars, viewVars >>

\* the RPC returns an error or throws
ResetRpcError(c, i) ==
  /\ i \in 1..Len(resetCalls[c])
  /\ DbError
  /\ resetCalls' = [resetCalls EXCEPT ![c] = RemoveAt(@, i)]
  /\ rpcErrors' = [rpcErrors EXCEPT ![c] = @ + 1]
  /\ UNCHANGED << storeVars, inbox, cacheVars, sessionVars, handler, outcome,
                  now, today, lastResetDate, cronLast, clientSet, wipes, historyVars,
                  opsLeft, resetsLeft,
                  configVars, viewVars >>

\* cron.schedule('midnight-reset', '0 0 * * *', 'SELECT reset_daily_queue()')
CronReset ==
  /\ cronLast # today
  /\ SpendReset
  /\ reset_daily_queue
  /\ cronLast' = today
  /\ UNCHANGED << nextId, cacheVars, sessionVars, handler, outcome, now, today,
                  lastResetDate, resetCalls, clientSet, rpcErrors, historyVars, opsLeft,
                  dbErrorsLeft,
                  configVars, viewVars >>

\* midnight
NextDay ==
  /\ today < MaxDay
  /\ today' = today + 1
  /\ UNCHANGED << storeVars, inbox, cacheVars, sessionVars, handler, outcome,
                  now, lastResetDate, resetCalls, cronLast, clientSet, wipes,
                  rpcErrors, historyVars, opsLeft, resetsLeft, dbErrorsLeft,
                  configVars, viewVars >>

\* ------------------------------------------------------------- specifications
QueueStep(joinable) ==
  \/ \E s \in joinable : JoinStart(Kiosk, s)
  \/ JoinInsert(Kiosk)
  \/ \E id \in 1..MaxTickets : CancelTicket(Kiosk, id)
  \/ \E c \in Staff : CallNextStart(c)
  \/ \E c \in Staff : CallNextUpdateTicket(c)
  \/ \E c \in Staff : CallNextUpdateCounter(c)
  \/ \E c \in Staff, status \in {COMPLETED, NO_SHOW} : UpdateStatusStart(c, status)
  \/ \E c \in Staff : UpdateStatusTicket(c)
  \/ \E c \in Staff : UpdateStatusCounter(c)
  \/ \E c \in Clients : Deliver(c)

\* the queue: one kiosk, the staff devices, one service
Next == QueueStep({"srv_1"})
Spec == Init /\ [][Next]_vars

\* the kiosk alone, joining and cancelling
NextJoin ==
  \/ \E s \in JoinServices : JoinStart(Kiosk, s)
  \/ JoinInsert(Kiosk)
  \/ \E id \in 1..MaxTickets : CancelTicket(Kiosk, id)
  \/ Deliver(Kiosk)
SpecJoin == InitJoin /\ [][NextJoin]_vars

\* joining, calling and the daily reset
NextReset ==
  \/ JoinStart(Kiosk, "srv_1")
  \/ JoinInsert(Kiosk)
  \/ \E c \in Staff : CallNextStart(c)
  \/ \E c \in Staff : CallNextUpdateTicket(c)
  \/ \E c \in Staff : CallNextUpdateCounter(c)
  \/ \E c \in Clients : Deliver(c)
  \/ \E c \in Clients : ResetTick(c)
  \/ \E c \in Clients, i \in 1..MaxInFlight : ResetRpcOk(c, i)
  \/ CronReset
  \/ NextDay
SpecReset == InitReset /\ [][NextReset]_vars

\* the reset ticks of the devices alone: the interval timer keeps ticking, an
\* RPC in flight is answered, and the RPC does not fail forever
ResetDevices == {Kiosk, 1}
NextResetOnly ==
  \/ \E c \in Clients : ResetTick(c)
  \/ \E c \in Clients, i \in 1..MaxInFlight : ResetRpcOk(c, i)
  \/ \E c \in Clients, i \in 1..MaxInFlight : ResetRpcError(c, i)
  \/ NextDay
ResetFairness ==
  \A c \in ResetDevices :
    /\ WF_vars(ResetTick(c))
    /\ SF_vars(\E i \in 1..MaxInFlight : ResetRpcOk(c, i))
SpecResetFair == InitResetOnly /\ [][NextResetOnly]_vars /\ ResetFairness

\* the kiosk and the device of counter 1, whose realtime channels get connected
\* while tickets are being taken; no store request fails
InitLate == InitWith({1}, {Kiosk}, MaxOps, 0, 0)
NextLate ==
  \/ JoinStart(Kiosk, "srv_1")
  \/ JoinInsert(Kiosk)
  \/ \E c \in Staff : Subscribe(c)
  \/ \E c \in Staff : CallNextStart(c)
  \/ \E c \in Staff : CallNextUpdateTicket(c)
  \/ \E c \in Staff : CallNextUpdateCounter(c)
  \/ \E c \in Clients : Deliver(c)
SpecLate == InitLate /\ [][NextLate]_vars

\* the kiosk takes tickets while the application starts on the device of
\* counter 1: its fetchData and its realtime channels run side by side
InitFetch == InitWith({}, {Kiosk}, MaxOpsJoin, 0, MaxDbErrors)
NextFetch ==
  \/ JoinStart(Kiosk, "srv_1")
  \/ JoinInsert(Kiosk)
  \/ Mount(1)
  \/ Subscribe(1)
  \/ fetchQuery(1)
  \/ fetchApply(1)
  \/ \E c \in Clients : Deliver(c)
SpecFetch == InitFetch /\ [][NextFetch]_vars

\* the kiosk and the device of counter 1, serving; no store request fails. A
\* handler that was invoked runs on to its end and the change feed is
\* delivered; nobody is bound to press a button
InitServe == InitWith({1}, {Kiosk, 1}, MaxOps, 0, 0)
NextServe ==
  \/ JoinStart(Kiosk, "srv_1")
  \/ JoinInsert(Kiosk)
  \/ \E id \in 1..MaxTickets : CancelTicket(Kiosk, id)
  \/ \E status \in {COMPLETED, NO_SHOW} : UpdateStatusStart(1, status)
  \/ CallNextStart(1) \/ CallNextUpdateTicket(1) \/ CallNextUpdateCounter(1)
  \/ UpdateStatusTicket(1) \/ UpdateStatusCounter(1)
  \/ \E c \in Clients : Deliver(c)
ServeFairness ==
  /\ WF_vars(JoinInsert(Kiosk))
  /\ WF_vars(CallNextUpdateTicket(1)) /\ WF_vars(CallNextUpdateCounter(1))
  /\ WF_vars(UpdateStatusTicket(1)) /\ WF_vars(UpdateStatusCounter(1))
  /\ \A c \in Clients : WF_vars(Deliver(c))
SpecServe == InitServe /\ [][NextServe]_vars /\ ServeFairness

\* one kiosk and one counter: customers join under a name, with or without a
\* phone number, are called, and the staff member notifies them; the settings
\* row is any of NotifySettings; the counter's device follows the change feed.
\* The application resumes its handlers and
\* delivers the change feed; nothing obliges the backend to answer.
Names == {WalkInName, "{number}"}
Phones == {NoPhone, << "+", "4", "4" >>}
Templates ==
  {SeedSettings.whatsappTemplate, << "{name}", "{date}", "{counter}" >>}
NotifySettings ==
  {[SeedSettings EXCEPT !.whatsappEnabled = enabled, !.whatsappApiKey = key,
                        !.whatsappTemplate = template] :
     enabled \in BOOLEAN, key \in {"", "key"}, template \in Templates}
InitNotify ==
  \E settings \in NotifySettings :
    InitState({1}, {1}, {1}, MaxOpsNotify, 0, 0, settings)
NextNotify ==
  \/ \E name \in Names, phone \in Phones : handleJoinQueue(Kiosk, name, "srv_1", phone)
  \/ JoinInsert(Kiosk)
  \/ CallNextStart(1)
  \/ CallNextUpdateTicket(1)
  \/ CallNextUpdateCounter(1)
  \/ sendWhatsAppNotification(1)
  \/ \E answer \in Answers : fetchSettles(1, answer)
  \/ \E c \in Clients : Deliver(c)
NotifyFairness ==
  /\ WF_vars(JoinInsert(Kiosk))
  /\ WF_vars(CallNextUpdateTicket(1)) /\ WF_vars(CallNextUpdateCounter(1))
  /\ \A c \in Clients : WF_vars(Deliver(c))
SpecNotify == InitNotify /\ [][NextNotify]_vars /\ NotifyFairness

\* one counter: tickets are taken and called, the counter is toggled
InitToggle == InitWith({1}, {Kiosk, 1}, MaxOpsToggle, 0, MaxDbErrors)
NextToggle ==
  \/ JoinStart(Kiosk, "srv_1")
  \/ JoinInsert(Kiosk)
  \/ CallNextStart(1)
  \/ CallNextUpdateTicket(1)
  \/ CallNextUpdateCounter(1)
  \/ handleToggleCounter(1)
  \/ ToggleUpdate(1)
  \/ \E c \in Clients : Deliver(c)
SpecToggle == InitToggle /\ [][NextToggle]_vars

\* the service catalogue: the administrator works on device 2 while the kiosk
\* hands out tickets of service srv_1 and counter 1 calls them
InitCatalog == InitDevices(Staff, {1}, Clients, MaxOps, 0, 0)
NextCatalog ==
  \/ JoinStart(Kiosk, "srv_1")
  \/ JoinInsert(Kiosk)
  \/ CallNextStart(1)
  \/ CallNextUpdateTicket(1)
  \/ CallNextUpdateCounter(1)
  \/ handleDeleteService(2, "srv_1")
  \/ handleUpdateService(2, "srv_1", "Enquiries")
  \/ \E c \in Clients : Deliver(c)
SpecCatalog == InitCatalog /\ [][NextCatalog]_vars

\* operating hours: the settings are disabled hours or a window that ends
\* before the clock does; the kiosk has run checkTime at mount
HoursSettings ==
  { [SeedSettings EXCEPT !.operatingHours = [enabled |-> e, start |-> 1, end |-> MaxTime - 1]] :
      e \in BOOLEAN }
InitHours ==
  \E settings \in HoursSettings :
    InitState({}, {}, {Kiosk}, MaxOpsJoin, 0, MaxDbErrors, settings)
NextHours ==
  \/ checkTime(Kiosk)
  \/ JoinStart(Kiosk, "srv_1")
  \/ JoinInsert(Kiosk)
  \/ \E id \in 1..MaxTickets : CancelTicket(Kiosk, id)
  \/ Deliver(Kiosk)
SpecHours == InitHours /\ [][NextHours]_vars

\* the sequential run: the kiosk and counter 1, no store request fails, and
\* an operation is invoked only when every handler has returned and every
\* change event has been delivered
Quiet ==
  \A c \in Clients : handler[c].pc = "idle" /\ inbox[c] = << >>
InitSequential == InitWith({1}, {Kiosk, 1}, MaxOps, 0, 0)
NextSequential ==
  \/ Quiet /\ JoinStart(Kiosk, "srv_1")
  \/ JoinInsert(Kiosk)
  \/ Quiet /\ CallNextStart(1)
  \/ CallNextUpdateTicket(1)
  \/ CallNextUpdateCounter(1)
  \/ \E status \in {COMPLETED, NO_SHOW} : Quiet /\ UpdateStatusStart(1, status)
  \/ UpdateStatusTicket(1)
  \/ UpdateStatusCounter(1)
  \/ \E c \in Clients : Deliver(c)
SpecSequential == InitSequential /\ [][NextSequential]_vars

\* the wait estimator: the display device has loaded a store in which
\* ticket i, when called, is at counter i (modulo the number of counters);
\* servedAt was stamped by the calling device, whose clock need not agree with
\* the clock of the display
CounterOfTicket(i) == ((i - 1) % NumCounters) + 1
TicketRowsAt(i) ==
  LET row(status, served, completed, counter) ==
        [ id |-> i, number |-> TicketNumber("A", i),
          customer_name |-> WalkInName, phone |-> NoPhone, service_id |-> "srv_1",
          service_name |-> "General Inquiry", status |-> status, joined_at |-> 1,
          served_at |-> served, completed_at |-> completed, counter_id |-> counter ]
  IN {row(WAITING, NULL, NULL, NULL), row(COMPLETED, 1, 1, CounterOfTicket(i))}
     \cup {row(SERVING, t, NULL, CounterOfTicket(i)) : t \in 1..MaxTime}
TicketTables ==
  UNION {{f \in [1..n -> UNION {TicketRowsAt(i) : i \in 1..n}] :
            \A i \in 1..n : f[i] \in TicketRowsAt(i)} : n \in 0..MaxTickets}
CurrentOf(rows, k) ==
  LET held == {i \in DOMAIN rows : rows[i].status = SERVING /\ rows[i].counter_id = k}
  IN IF held = {} THEN NULL ELSE CHOOSE i \in held : \A j \in held : i >= j
InitEstimate ==
  /\ InitRest({}, {}, {Kiosk}, 0, 0, 0, SeedSettings)
  /\ db_tickets \in TicketTables
  /\ nextId = Len(db_tickets) + 1
  /\ \E open \in [Counters -> BOOLEAN] :
       db_counters = [k \in Counters |->
                        [ id |-> k, is_open |-> open[k], assigned_staff_id |-> NULL,
                          current_ticket_id |-> CurrentOf(db_tickets, k) ]]
  /\ tickets = [c \in Clients |-> SeqMap(mapDbTicketToApp, db_tickets)]
  /\ counters = [c \in Clients |-> SeqMap(mapDbCounterToApp, db_counters)]
  /\ now \in 1..MaxTime
NextEstimate == calculateWaitTimes(Kiosk)
SpecEstimate == InitEstimate /\ [][NextEstimate]_vars

\* staff sessions: every staff device is running, nobody is logged in yet
InitStaff == InitDevices(Staff, {}, Clients, MaxOps, 0, MaxDbErrors)
NextStaff ==
  \/ \E c \in Staff, u \in Staff : handleLogin(c, u)
  \/ \E c \in Staff : handleLogout(c)
  \/ \E c \in Staff, k \in Counters : LogoutRelease(c, k)
  \/ \E c \in Staff, k \in Counters : handleStaffSelectCounter(c, k)
  \/ \E c \in Staff : StaffSelectUpdate(c)
  \/ \E c \in Staff : handleStaffLeaveCounter(c)
  \/ \E c \in Staff : StaffLeaveUpdate(c)
  \/ \E c \in Clients : Deliver(c)
SpecStaff == InitStaff /\ [][NextStaff]_vars

\* ------------------------------------------------------------- properties
NoStoreError == dbErrorsLeft = MaxDbErrors

Terminal == {COMPLETED, CANCELLED, NO_SHOW}

\* the edges of the ticket state machine
Edges == { << WAITING, SERVING >>, << WAITING, CANCELLED >>,
           << SERVING, COMPLETED >>, << SERVING, NO_SHOW >>,
           << SERVING, CANCELLED >> }

\* the tickets that are in the store before and after a step
Kept == DOMAIN db_tickets \cap DOMAIN db_tickets'

\* a step in which reset_daily_queue was executed
Wiped == \E d \in Days : wipes'[d] > wipes[d]

\* C1: at most one counter ever claims a ticket: handleCallNext writes a
\* ticket's counter for at most one counter, and no two counters hold the same
\* ticket as currentTicketId, in the store or in the state of any client
\* (stated for runs in which no store request fails).
C1_AtMostOneCounterClaims ==
  NoStoreError =>
    /\ \A p, q \in claimed : p[1] = q[1] => p[2] = q[2]
    /\ \A j, k \in Counters :
         (j # k /\ db_counters[j].current_ticket_id # NULL)
           => db_counters[j].current_ticket_id # db_counters[k].current_ticket_id
    /\ \A c \in Clients : \A j, k \in 1..Len(counters[c]) :
         (j # k /\ counters[c][j].currentTicketId # NULL)
           => counters[c][j].currentTicketId # counters[c][k].currentTicketId

\* the ticket of c's running CallNext has been taken by another counter
LostTo(c) ==
  /\ handler[c].pc = "call_update_ticket"
  /\ handler[c].nextTicketId \in DOMAIN db_tickets
  /\ db_tickets[handler[c].nextTicketId].status = SERVING
  /\ db_tickets[handler[c].nextTicketId].counter_id # handler[c].counterId

\* C2: when the only ticket of the queue was WAITING and several counters
\* called CallNext, a call whose conditional update finds the ticket taken by
\* another counter ends as NoTicketAvailable: it marks no ticket SERVING and
\* sets no counter's currentTicketId, so the caller's tickets and counters and
\* the store are as before.
C2_LoserEndsWithoutEffect ==
  [][\A c \in Staff :
       (/\ Cardinality(DOMAIN db_tickets) = 1
        /\ LostTo(c)
        /\ handler'[c].pc = "idle"
        /\ dbErrorsLeft' = MaxDbErrors)
       => /\ tickets'[c] = tickets[c]
          /\ counters'[c] = counters[c]
          /\ db_tickets' = db_tickets
          /\ db_counters' = db_counters]_vars

\* C3: the ticket numbers of each service in the store have no duplicates and
\* are the contiguous run prefix001 .. prefixN (stated for runs in which no
\* store request fails).
C3_NumbersContiguous ==
  NoStoreError =>
    \A i \in 1..Len(INITIAL_SERVICES) :
      LET service == INITIAL_SERVICES[i]
          ids == {t \in DOMAIN db_tickets : db_tickets[t].service_id = service.id}
      IN /\ \A t, u \in ids : t # u => db_tickets[t].number # db_tickets[u].number
         /\ {db_tickets[t].number : t \in ids}
              = {TicketNumber(service.prefix, n) : n \in 1..Cardinality(ids)}

\* C4: every change of a ticket's status follows an edge of the state machine:
\* no ticket returns to WAITING and none leaves COMPLETED, CANCELLED or NO_SHOW
\* (stated for runs in which no store request fails).
C4_StatusFollowsEdges ==
  [][\A t \in Kept :
       (NoStoreError' /\ db_tickets'[t].status # db_tickets[t].status)
         => << db_tickets[t].status, db_tickets'[t].status >> \in Edges]_vars

\* C5: a status update or cancel applied to a ticket in a terminal status fails
\* and leaves the ticket's status and timestamps unchanged (stated for runs in
\* which no store request fails).
C5_TerminalUpdateRejected ==
  [][\A t \in Kept :
       (NoStoreError' /\ db_tickets[t].status \in Terminal)
         => /\ db_tickets'[t].status = db_tickets[t].status
            /\ db_tickets'[t].served_at = db_tickets[t].served_at
            /\ db_tickets'[t].completed_at = db_tickets[t].completed_at]_vars

\* C6: in every reachable state a counter whose currentTicketId is not null
\* refers to a ticket that is SERVING at that counter (stated for runs in which
\* no store request fails).
C6_CurrentTicketIsServing ==
  \A k \in Counters :
    LET id == db_counters[k].current_ticket_id
    IN (NoStoreError /\ id # NULL)
         => /\ id \in DOMAIN db_tickets
            /\ db_tickets[id].status = SERVING
            /\ db_tickets[id].counter_id = k

\* the database's own midnight job has not run
NoCronRun == cronLast = 1

\* C7: over the reset ticks of all running clients the full-queue wipe is
\* performed at most once per calendar day (stated for the wipes the clients
\* perform: the midnight job of the database has not run).
C7_OneWipePerDay == NoCronRun => \A d \in Days : wipes[d] <= 1

\* C8: a reset RPC that fails leaves lastResetDate unchanged, so the tick is
\* taken again; as the RPC does not fail forever, the wipe is eventually
\* performed and lastResetDate becomes the current date.
C8_FailedResetIsRetried ==
  /\ [][\A c \in Clients :
          rpcErrors'[c] # rpcErrors[c] => lastResetDate'[c] = lastResetDate[c]]_vars
  /\ \A c \in ResetDevices :
       (c \in mounted /\ lastResetDate[c] # today)
         ~> (lastResetDate[c] = today /\ \E d \in Days : wipes[d] > 0)

\* a client whose RPC failed has, on a later day than the first, reset the queue
C8_Witness ==
  \E c \in mounted :
    /\ rpcErrors[c] > 0
    /\ today > 1
    /\ lastResetDate[c] = today
    /\ resetCalls[c] = << >>
    /\ wipes[today] > 0

\* C9: immediately after a successful daily reset the store contains no ticket
\* of any status and every counter's currentTicketId is null.
C9_ResetLeavesNothing ==
  [][Wiped => /\ db_tickets' = << >>
              /\ \A k \in Counters : db_counters'[k].current_ticket_id = NULL]_vars

\* the store has been wiped while a ticket was being served: a client still
\* shows the ticket SERVING at a counter the store no longer gives a ticket
C9_Witness ==
  /\ \E d \in Days : wipes[d] > 0
  /\ db_tickets = << >>
  /\ \E c \in Clients : \E i \in 1..Len(tickets[c]) :
       /\ tickets[c][i].status = SERVING
       /\ \E j \in 1..Len(counters[c]) :
            /\ counters[c][j].currentTicketId = tickets[c][i].id
            /\ db_counters[counters[c][j].id].current_ticket_id = NULL

CallNextAttempt(c) ==
  handler[c].pc = "call_update_ticket" /\ handler'[c].pc # "call_update_ticket"

\* C11: the conditional update of handleCallNext on a ticket that is no longer
\* WAITING fails as StaleTicket and changes nothing: the ticket's status,
\* counter and servedAt and the calling counter's currentTicketId stay as they
\* were, in the store and in the caller's state (stated for runs in which no
\* store request fails).
C11_StaleAttemptChangesNothing ==
  [][\A c \in Staff :
       (/\ CallNextAttempt(c)
        /\ ~StillWaiting(handler[c].nextTicketId)
        /\ NoStoreError')
       => /\ db_tickets' = db_tickets
          /\ db_counters' = db_counters
          /\ tickets'[c] = tickets[c]
          /\ counters'[c] = counters[c]]_vars

\* C12: whenever CallNext succeeds, the ticket it moves to SERVING has the
\* smallest joinedAt among the tickets that are WAITING in the store at the
\* moment of the transition, whatever the caller's cached ticket list holds.
C12_CallNextIsFifo ==
  [][\A c \in Staff :
       (/\ CallNextAttempt(c)
        /\ StillWaiting(handler[c].nextTicketId)
        /\ db_tickets'[handler[c].nextTicketId].status = SERVING)
       => \A t \in DOMAIN db_tickets :
            db_tickets[t].status = WAITING
              => db_tickets[handler[c].nextTicketId].joined_at <= db_tickets[t].joined_at]_vars

\* C13: a CallNext that loses the race for its candidate while other tickets
\* are WAITING re-reads the oldest WAITING ticket and retries, so the invocation
\* does not end before it has claimed a ticket for its counter (stated for runs
\* in which no store request fails).
C13_LoserRetries ==
  [][\A c \in Staff :
       (/\ CallNextAttempt(c)
        /\ LostTo(c)
        /\ \E t \in DOMAIN db_tickets : db_tickets[t].status = WAITING
        /\ NoStoreError'
        /\ handler'[c].pc = "idle")
       => \E t \in DOMAIN db_tickets' :
            /\ db_tickets'[t].status = SERVING
            /\ db_tickets'[t].counter_id = handler[c].counterId]_vars

\* C14: a CallNext invoked when no ticket is WAITING returns without effect: no
\* ticket and no counter changes, in the store or in the caller's state (stated
\* for runs in which no store request fails).
C14_EmptyQueueCallHasNoEffect ==
  [][\A c \in Staff :
       (/\ handler[c].pc \in {"call_update_ticket", "call_update_counter"}
        /\ handler[c].queued = 0
        /\ handler'[c] # handler[c]
        /\ NoStoreError')
       => /\ db_tickets' = db_tickets
          /\ db_counters' = db_counters
          /\ tickets'[c] = tickets[c]
          /\ counters'[c] = counters[c]]_vars

TicketViews ==
  {<< db_tickets[t].status, db_tickets[t].served_at, db_tickets[t].completed_at >> :
     t \in DOMAIN db_tickets}
  \cup UNION {{<< tickets[c][i].status, tickets[c][i].servedAt, tickets[c][i].completedAt >> :
                 i \in 1..Len(tickets[c])} : c \in Clients}

\* C16 (as claimed): in every reachable state a ticket whose servedAt is set
\* has status SERVING, COMPLETED or NO_SHOW.
C16_ServedAtImpliesServed ==
  \A v \in TicketViews : v[2] # NULL => v[1] \in {SERVING, COMPLETED, NO_SHOW}

\* C16 (amended): in every reachable state a ticket whose servedAt is set has
\* status SERVING, COMPLETED, NO_SHOW or CANCELLED: it is never WAITING.
C16_ServedAtImpliesNotWaiting ==
  \A v \in TicketViews : v[2] # NULL => v[1] \in {SERVING, COMPLETED, NO_SHOW, CANCELLED}

\* a ticket that was being served has been cancelled and keeps its servedAt
C16_Witness ==
  \E t \in DOMAIN db_tickets :
    /\ db_tickets[t].served_at # NULL
    /\ db_tickets[t].status = CANCELLED
    /\ db_tickets[t].counter_id # NULL

\* C17: in every reachable state a ticket whose completedAt is set has status
\* COMPLETED.
C17_CompletedAtImpliesCompleted ==
  \A v \in TicketViews : v[3] # NULL => v[1] = COMPLETED

\* C18: ticket timestamps and counter assignment are write-once: once set, a
\* ticket's servedAt and counter never change, and once set its completedAt
\* never changes, also under a repeated COMPLETED update.
C18_WriteOnce ==
  [][\A t \in Kept :
       /\ db_tickets[t].served_at # NULL
            => db_tickets'[t].served_at = db_tickets[t].served_at
       /\ db_tickets[t].counter_id # NULL
            => db_tickets'[t].counter_id = db_tickets[t].counter_id
       /\ db_tickets[t].completed_at # NULL
            => db_tickets'[t].completed_at = db_tickets[t].completed_at]_vars

\* C19: in the store no staff member is assigned to more than one counter,
\* whatever logins, counter selections, leaves and logouts have happened
\* (stated for runs without store errors)
C19_OneCounterPerStaff ==
  NoStoreError =>
    \A j, k \in Counters :
      (j # k /\ db_counters[j].assigned_staff_id # NULL)
        => db_counters[j].assigned_staff_id # db_counters[k].assigned_staff_id

\* a toggle of client c completes in this step
ToggleCompletes(c) ==
  handler[c].pc = "toggle_update" /\ handler'[c].pc = "idle"

\* C20: a completed Toggle changes nothing but isOpen of its target counter:
\* the counter's current ticket and staff, every other counter and every
\* ticket stay as they were, in the store and in the caller's cache
C20_ToggleChangesOnlyIsOpen ==
  [][\A c \in Staff :
       ToggleCompletes(c) =>
         /\ db_tickets' = db_tickets
         /\ tickets' = tickets
         /\ db_counters' =
              [db_counters EXCEPT ![handler[c].counterId].is_open =
                 db_counters'[handler[c].counterId].is_open]
         /\ \A i \in DOMAIN counters[c] :
              counters'[c][i] =
                IF counters[c][i].id = handler[c].counterId
                  THEN [counters[c][i] EXCEPT !.isOpen = counters'[c][i].isOpen]
                  ELSE counters[c][i]
         /\ staffCounterId' = staffCounterId]_vars

\* a counter that was open with a current ticket (the event of the call is
\* still undelivered) has been closed by a toggle, and the ticket is SERVING
C20_Witness ==
  \E k \in Counters :
    /\ ~db_counters[k].is_open
    /\ db_counters[k].current_ticket_id \in DOMAIN db_tickets
    /\ db_tickets[db_counters[k].current_ticket_id].status = SERVING
    /\ \E i \in DOMAIN inbox[1] :
         /\ inbox[1][i].table = "counters"
         /\ inbox[1][i].row.id = k
         /\ inbox[1][i].row.is_open
         /\ inbox[1][i].row.current_ticket_id = db_counters[k].current_ticket_id

\* C21: two completed Toggle calls on the same counter, one after the other,
\* leave the counter's isOpen in the store equal to its value before the
\* first of them (stated for runs without store errors)
C21_TwoTogglesRestore ==
  NoStoreError =>
    \A k \in Counters : \A i \in 1..Len(toggled[k]) :
      i + 1 \in DOMAIN toggled[k] => toggled[k][i + 1][2] = toggled[k][i][1]

\* C22: editing or deleting a service definition leaves every ticket of the
\* store as it is (none deleted, none altered; serviceName as written at Join)
C22_ServiceEditKeepsTickets ==
  [][db_services' # db_services => db_tickets' = db_tickets]_vars

\* a Join of client c ends in this step
JoinEnds(c) == handler[c].pc = "join_insert" /\ handler'[c].pc = "idle"

\* C23: a Join whose serviceId was not a service of the store when it was
\* called (the caller's cached services still list it) ends with an error and
\* creates no ticket, in the store or in any client's ticket list
C23_UnknownServiceCreatesNothing ==
  [][\A c \in Clients :
       (JoinEnds(c) /\ ~handler[c].known)
         => /\ db_tickets' = db_tickets
            /\ tickets' = tickets
            /\ outcome'[c] \notin {"ok", "local"}]_vars

\* the tickets a client shows that the store does not hold (local fallback)
LocalOnly(c) ==
  {i \in DOMAIN tickets[c] : tickets[c][i].id \notin DOMAIN db_tickets}

\* C24: with operating hours disabled the kiosk accepts a Join at any time;
\* with operating hours enabled no ticket is created at a time outside the
\* window [start, end]
\* (stated for runs without store errors)
C24_JoinOnlyInsideHours ==
  NoStoreError =>
    IF ~systemSettings.operatingHours.enabled
      THEN isShopOpen[Kiosk]
      ELSE /\ \A i \in DOMAIN db_tickets : InsideHours(db_tickets[i].joined_at)
           /\ \A i \in LocalOnly(Kiosk) : InsideHours(tickets[Kiosk][i].joinedAt)

\* the tickets of client c's list, by status
InStatus(c, status) == {i \in DOMAIN tickets[c] : tickets[c][i].status = status}

\* C25: when the display's list has no WAITING and no SERVING ticket, the
\* estimator yields 0 minutes for every service, whatever the completed
\* tickets and the open counters
C25_EmptySystemEstimatesZero ==
  [][\A c \in Clients :
       (/\ serviceEstimates'[c] # serviceEstimates[c]
        /\ InStatus(c, WAITING) = {} /\ InStatus(c, SERVING) = {})
         => \A id \in serviceIds(c) : serviceEstimates'[c][id] = 0]_vars

\* the estimator has run on a list that holds completed tickets only
C25_Witness ==
  /\ InStatus(Kiosk, WAITING) = {} /\ InStatus(Kiosk, SERVING) = {}
  /\ InStatus(Kiosk, COMPLETED) # {}
  /\ serviceEstimates[Kiosk] # << >>
  /\ \E k \in Counters : ~db_counters[k].is_open

\* the sum of the values of a function with a finite domain
RECURSIVE SumFn(_)
SumFn(g) ==
  IF DOMAIN g = {} THEN 0
  ELSE LET i == CHOOSE i \in DOMAIN g : TRUE
       IN g[i] + SumFn([j \in DOMAIN g \ {i} |-> g[j]])

\* the number of open counters in client c's list, at least 1
OpenDivisor(c) ==
  Max(1, Cardinality({k \in DOMAIN counters[c] : counters[c][k].isOpen}))

\* the backlog of the WAITING tickets of client c, in ms
WaitingBacklog(c) ==
  SumFn([i \in InStatus(c, WAITING) |-> standardTimes(c, tickets[c][i].serviceId)])

\* the estimator of client c has run in this step on a list that is not empty
EstimatedBacklog(c) ==
  /\ serviceEstimates'[c] # serviceEstimates[c]
  /\ InStatus(c, WAITING) \cup InStatus(c, SERVING) # {}

\* C26 (as claimed): with a WAITING or SERVING ticket, every service gets
\* ceil((servingBacklog + waitingBacklog) / max(1, open counters)) minutes,
\* servingBacklog summing max(30 s, standard duration - time since servedAt)
\* over the SERVING tickets
C26_EstimateIsBacklogOverCounters ==
  [][\A c \in Clients :
       EstimatedBacklog(c) =>
         LET servingBacklog ==
               SumFn([i \in InStatus(c, SERVING) |->
                        Max(30000, standardTimes(c, tickets[c][i].serviceId)
                                     - (ToMs(now') - ToMs(tickets[c][i].servedAt)))])
         IN \A id \in serviceIds(c) :
              serviceEstimates'[c][id] =
                Ceil(servingBacklog + WaitingBacklog(c), OpenDivisor(c) * 60000)]_vars

\* C26 (amended): as claimed, except that a SERVING ticket whose servedAt is
\* later than the estimator's clock counts its full standard duration
C26_EstimateClampsFutureServedAt ==
  [][\A c \in Clients :
       EstimatedBacklog(c) =>
         LET servingBacklog ==
               SumFn([i \in InStatus(c, SERVING) |->
                        IF tickets[c][i].servedAt > now'
                          THEN standardTimes(c, tickets[c][i].serviceId)
                          ELSE Max(30000, standardTimes(c, tickets[c][i].serviceId)
                                       - (ToMs(now') - ToMs(tickets[c][i].servedAt)))])
         IN \A id \in serviceIds(c) :
              serviceEstimates'[c][id] =
                Ceil(servingBacklog + WaitingBacklog(c), OpenDivisor(c) * 60000)]_vars

\* the estimator has run with every counter closed, one overdue SERVING
\* ticket (30 s left) and one WAITING ticket (5 min): 6 minutes
C26_Witness ==
  /\ \A k \in Counters : ~db_counters[k].is_open
  /\ Cardinality(InStatus(Kiosk, WAITING)) = 1
  /\ \E i \in InStatus(Kiosk, SERVING) :
       /\ InStatus(Kiosk, SERVING) = {i}
       /\ tickets[Kiosk][i].servedAt < now
  /\ serviceEstimates[Kiosk] # << >>
  /\ serviceEstimates[Kiosk]["srv_1"] = 6

\* what client c has produced for its customers: alerts and deep links
Outcomes(c) == SelectSeq(notices[c], LAMBDA n : n.kind \in {"alert", "open"})

\* the calls of Notify by client c that go past the early return
NotifyNoOp(c) ==
  /\ staffCounterId[c] # NULL /\ HasCurrentTicket(c)
  /\ (~systemSettings.whatsappEnabled \/ currentTicket(c).phone = NoPhone)
NotifyActs(c) ==
  /\ staffCounterId[c] # NULL /\ HasCurrentTicket(c)
  /\ systemSettings.whatsappEnabled /\ currentTicket(c).phone # NoPhone
  /\ ~isSendingNotification[c]

\* C27: a Notify with notifications disabled or a current ticket without
\* phone changes nothing; otherwise, with no API key the call produces exactly
\* one deep link, and with an API key it produces nothing but the request, and
\* the answer produces exactly one outcome: the alert of a sent message on a
\* 2xx, the deep link on any other answer and on a network error
C27_NotifyOneOutcome ==
  [][\A c \in Staff :
       /\ (sendWhatsAppNotification(c) /\ NotifyNoOp(c))
            => /\ notices' = notices
               /\ isSendingNotification' = isSendingNotification
       /\ (sendWhatsAppNotification(c) /\ NotifyActs(c))
            => IF systemSettings.whatsappApiKey = ""
                 THEN /\ Len(Outcomes(c)') = Len(Outcomes(c)) + 1
                      /\ notices'[c][Len(notices'[c])].kind = "open"
                      /\ Len(notices'[c]) = Len(notices[c]) + 1
                      /\ ~isSendingNotification'[c]
                 ELSE /\ Outcomes(c)' = Outcomes(c)
                      /\ notices'[c][Len(notices'[c])].kind = "fetch"
                      /\ isSendingNotification'[c]
       /\ \A answer \in Answers :
            fetchSettles(c, answer)
              => /\ Len(notices'[c]) = Len(notices[c]) + 1
                 /\ notices'[c][Len(notices'[c])].kind =
                      (IF answer = "ok" THEN "alert" ELSE "open")
                 /\ notices'[c][Len(notices'[c])].message =
                      notices[c][Len(notices[c])].message]_vars

\* with an API key, a customer with a phone was called and notified: the
\* request was not answered with a 2xx and the deep link followed
C27_Witness ==
  /\ systemSettings.whatsappApiKey # ""
  /\ ~isSendingNotification[1]
  /\ Len(notices[1]) = 2
  /\ notices[1][1].kind = "fetch" /\ notices[1][2].kind = "open"
  /\ opsLeft = 0

\* C28: a Notify that awaits the backend does not wait for ever: the
\* in-progress state is eventually cleared and an outcome (the deep link, when
\* the backend does not answer) has been produced
C28_NotifyNeverBlocks ==
  \A c \in Staff :
    isSendingNotification[c]
      ~> (~isSendingNotification[c] /\ Outcomes(c) # << >>)

\* the messages client c has built, requests and deep links
Rendered(c) == SelectSeq(notices[c], LAMBDA n : n.kind \in {"fetch", "open"})

\* C29: every message built by Notify is the template with each placeholder
\* {name}, {number}, {service}, {counter} replaced by the ticket's value in one
\* pass: a value that reads like a placeholder stays as it is, and so does any
\* other text in braces
C29_RenderIsOnePass ==
  [][\A c \in Staff :
       (sendWhatsAppNotification(c) /\ Len(Rendered(c)') = Len(Rendered(c)) + 1)
         => notices'[c][Len(notices'[c])].message =
              replaceAll_OnePass(systemSettings.whatsappTemplate,
                                 currentTicket(c), staffCounterId[c])]_vars

\* client c holds state that exists only locally after a failed store write:
\* a fallback ticket of Join (temp id), or a ticket its CallNext forced to
\* SERVING while the store still has it WAITING
HoldsFallbackState(c) ==
  \E i \in DOMAIN tickets[c] :
    \/ tickets[c][i].id < 0
    \/ /\ tickets[c][i].id \in DOMAIN db_tickets
       /\ tickets[c][i].status = SERVING
       /\ db_tickets[tickets[c][i].id].status = WAITING

\* C30: a client that holds a ticket or counter change existing only locally
\* after a failed store write of Join or CallNext is flagged as degraded
C30_FallbackIsFlagged ==
  \A c \in Clients : HoldsFallbackState(c) => degradedMode(c)

\* a CallNext of client c ends with its counter write in this step
CallNextEnds(c) ==
  handler[c].pc = "call_update_counter" /\ handler'[c].pc = "idle"

\* a status update of client c ends in this step
UpdateStatusEnds(c) ==
  /\ handler[c].pc \in {"status_update_ticket", "status_update_counter"}
  /\ handler'[c].pc = "idle"

StoreTickets == {mapDbTicketToApp(db_tickets[i]) : i \in DOMAIN db_tickets}
StoreCounters == {mapDbCounterToApp(db_counters[k]) : k \in DOMAIN db_counters}

\* the entries of a list
Entries(list) == {list[i] : i \in DOMAIN list}

\* C32: when every change event has been delivered and no handler is in
\* flight, the cached tickets and counters of every connected client are the
\* store's tickets and counters
C32_CacheIsReplica ==
  Quiet =>
    \A c \in mounted \cap subscribed :
      /\ Entries(tickets[c]) = StoreTickets
      /\ Entries(counters[c]) = StoreCounters

\* C33: once the estimator of a device has run, the standard duration it uses
\* for a service of its list is the default_wait_time (minutes) of that
\* service's row in the store
C33_StandardIsConfiguredDefault ==
  \A c \in mounted :
    serviceEstimates[c] # << >> =>
      \A id \in serviceIds(c) \cap DOMAIN db_services :
        standardTimes(c, id) = db_services[id].default_wait_time * 60 * 1000

\* no CallNext is between its invocation and its return
NoCallNextInFlight ==
  \A c \in Clients : handler[c].pc \notin {"call_update_ticket", "call_update_counter"}

\* C34: whenever no CallNext is in flight, every SERVING ticket of the store
\* is the current ticket of the counter it names
C34_ServingTicketIsHeld ==
  NoCallNextInFlight =>
    \A i \in DOMAIN db_tickets :
      db_tickets[i].status = SERVING
        => /\ db_tickets[i].counter_id \in DOMAIN db_counters
           /\ db_counters[db_tickets[i].counter_id].current_ticket_id = i

\* C35: two sessions of different staff members never operate the same
\* counter (stated for runs without store errors)
C35_OneSessionPerCounter ==
  NoStoreError =>
    \A c, d \in Staff :
      (/\ c # d
       /\ currentUser[c] # NULL /\ currentUser[d] # NULL
       /\ currentUser[c] # currentUser[d]
       /\ staffCounterId[c] # NULL)
        => staffCounterId[c] # staffCounterId[d]

\* no write of assigned_staff_id is between its request and its answer
NoAssignmentInFlight ==
  \A c \in Staff :
    /\ handler[c].pc \notin {"select_update", "leave_update"}
    /\ released[c] = {}

\* C36: with no assignment write in flight, the counter a logged-in staff
\* session operates is assigned to that staff member in the store (stated for
\* runs without store errors and for a counter no other session operates)
C36_OperatedCounterIsAssigned ==
  (NoStoreError /\ NoAssignmentInFlight) =>
    \A c \in Staff :
      (/\ currentUser[c] # NULL
       /\ staffCounterId[c] # NULL
       /\ \A d \in Staff \ {c} : staffCounterId[d] # staffCounterId[c])
        => db_counters[staffCounterId[c]].assigned_staff_id = currentUser[c]

\* C37: the cached ticket list of a client never holds two entries with the
\* same ticket id
C37_NoDuplicateCachedTicket ==
  NoStoreError =>
    \A c \in mounted :
      \A i, j \in DOMAIN tickets[c] :
        i # j => tickets[c][i].id # tickets[c][j].id

\* ------------------------------------------------------------- C38
\* the three ways a ticket leaves the store, against a CallNext of counter 1:
\* the kiosk hands out tickets of service srv_1, counter 1 calls and completes
\* them, the administrator on device 2 deletes the service, and the scheduled
\* job runs reset_daily_queue once, after midnight
InitIntegrity == InitDevices(Staff, {1}, {1}, MaxOpsIntegrity, 1, 0)
NextIntegrity ==
  \/ JoinStart(Kiosk, "srv_1")
  \/ JoinInsert(Kiosk)
  \/ CallNextStart(1)
  \/ CallNextUpdateTicket(1)
  \/ CallNextUpdateCounter(1)
  \/ UpdateStatusStart(1, COMPLETED)
  \/ UpdateStatusTicket(1)
  \/ UpdateStatusCounter(1)
  \/ handleDeleteService(2, "srv_1")
  \/ NextDay
  \/ CronReset
  \/ Deliver(1)
SpecIntegrity == InitIntegrity /\ [][NextIntegrity]_vars

\* C38: in the store, the current_ticket_id of every counter is null or the id
\* of a ticket row that exists
C38_CurrentTicketExists ==
  \A k \in DOMAIN db_counters :
    \/ db_counters[k].current_ticket_id = NULL
    \/ db_counters[k].current_ticket_id \in DOMAIN db_tickets

\* the daily reset removed the ticket of a CallNext between its ticket write
\* and its counter write (the service of the ticket is still in the store)
C38_Witness ==
  /\ \E d \in Days : wipes[d] > 0
  /\ "srv_1" \in DOMAIN db_services
  /\ handler[1].pc = "call_update_counter"
  /\ handler[1].nextTicketId \notin DOMAIN db_tickets
  /\ C38_CurrentTicketExists

====
